---- MODULE Spec2Model ----
(***************************************************************************)
(* Media ingestion pipeline of the Racing Notes desktop application:       *)
(* StorageService (storage_service.py) and the MediaUpload model           *)
(* (models.py).  One execution of Spec or BatchSpec is one top-level call  *)
(* of upload_media_with_retry, process_and_upload_media or                 *)
(* batch_process_media on a StorageService built with some max_retries.    *)
(* The other specifications exercise one component each: the MediaUpload   *)
(* constructor, the temporary files of compress_video, the database        *)
(* client (supabase_client.py), the session cache and the batch helper     *)
(* of utils.py.                                                            *)
(*                                                                         *)
(* A filename is the sequence of its dot-separated segments:               *)
(* "photo.jpg" is <<"photo", "jpg">> and ".jpg" is <<"", "jpg">>.          *)
(* A payload is a record [id, enc, len]: which source bytes it comes from, *)
(* how it was encoded (format "raw" for the caller's bytes) and its byte   *)
(* length.                                                                 *)
(***************************************************************************)
EXTENDS Integers, Sequences, FiniteSets, TLC

\* ------------------------------------------------------------------ bounds
\* Longest list handed to batch_process_media.
MaxBatch == 3
\* Seconds of session time over which the cache is observed.
MaxTime == 3
\* Longest list handed to AsyncUtils.batch_process.
MaxItems == 3
\* Number of get_supabase_client calls of a process.
MaxCalls == 3

\* ------------------------------------------------------- program constants
MiB == 1048576
image_formats == {"jpg", "jpeg", "png", "gif", "heic", "heif"}
video_formats == {"mp4", "mov", "avi", "m4v"}
max_file_size == 100 * MiB
max_compressed_image_size == 10 * MiB
max_compressed_video_size == 50 * MiB
image_quality == 85
retry_delays == <<1, 2, 4, 8, 16>>
default_max_retries == 5
allowed_extensions == {"jpg", "jpeg", "png", "gif", "mp4", "mov", "avi"}
model_max_size == 100 * MiB

\* SupabaseClient.__init__
db_retry_delays == <<1, 2, 4, 8, 16>>
default_db_max_retries == 3

\* Values of SupabaseClient's max_retries parameter that are explored.
DbMaxRetriesChoices == {0, 1, 2, default_db_max_retries, 7}

\* Values of the max_retries constructor parameter that are explored.
MaxRetriesChoices == {0, 1, 2, default_max_retries, 7}

\* ------------------------------------------------------------- filenames
\* str.lower() on the segments that occur in the explored filenames.
Lower(s) ==
    CASE s = "JPG" -> "jpg"
      [] s = "MOV" -> "mov"
      [] s = "PNG" -> "png"
      [] s = "HEIC" -> "heic"
      [] OTHER -> s

Last(seq) == seq[Len(seq)]

\* pathlib.PurePath.suffix: the text from the last dot on, unless that dot
\* is the first or the last character of the name.  Returned without the dot,
\* "" when there is no suffix.
Suffix(name) ==
    IF /\ Len(name) >= 2
       /\ (Len(name) > 2 \/ name[1] # "")
       /\ Last(name) # ""
    THEN Last(name)
    ELSE ""

\* Path(filename).suffix.lower()
file_ext_of(name) == Lower(Suffix(name))

\* Path(filename).with_suffix("." + ext).name
with_suffix(name, ext) ==
    IF Suffix(name) = ""
    THEN Append(name, ext)
    ELSE [name EXCEPT ![Len(name)] = ext]

\* str.lower().endswith("." + ext)
EndsWithExt(name, ext) == Len(name) >= 2 /\ Lower(Last(name)) = ext

\* ------------------------------------------------------------ MediaUpload
validate_filename(v) == \E ext \in allowed_extensions : EndsWithExt(v, ext)

\* The ceiling itself rejected.
validate_size_excludes_ceiling(v) == ~(v >= model_max_size)

validate_size(v) == ~(v > model_max_size)

\* Construction of a MediaUpload succeeds iff every field validator passes.
MediaUploadAccepted(m) ==
    /\ m.filename \notin {<<>>, <<"">>}
    /\ m.content_type # ""
    /\ m.size_bytes >= 0
    /\ validate_filename(m.filename)
    /\ validate_size(m.size_bytes)

Raw(id, n) == [id |-> id, enc |-> [format |-> "raw", quality |-> 0], len |-> n]

\* Candidate constructor arguments.
UploadCandidates ==
    { [filename |-> <<"photo", "jpg">>, content_type |-> "image/jpeg",
       size_bytes |-> 3 * MiB, data |-> Raw("img", 3 * MiB)],
      [filename |-> <<"", "jpg">>, content_type |-> "image/jpeg",
       size_bytes |-> 1024, data |-> Raw("dot", 1024)],
      [filename |-> <<"clip", "MOV">>, content_type |-> "video/quicktime",
       size_bytes |-> 60 * MiB, data |-> Raw("vid", 60 * MiB)],
      [filename |-> <<"lap", "mp4">>, content_type |-> "video/mp4",
       size_bytes |-> 4 * MiB, data |-> Raw("lap", 4 * MiB)],
      [filename |-> <<"huge", "png">>, content_type |-> "image/png",
       size_bytes |-> 1024, data |-> Raw("big", 100 * MiB + 1)],
      [filename |-> <<"notes", "txt">>, content_type |-> "text/plain",
       size_bytes |-> 10, data |-> Raw("txt", 10)] }

\* The MediaUpload values that exist: the candidates construction accepts.
MediaUploads == { m \in UploadCandidates : MediaUploadAccepted(m) }

\* Lists of at most n uploads.
RECURSIVE ListsUpTo(_, _)
ListsUpTo(S, n) ==
    IF n = 0 THEN { <<>> }
    ELSE LET shorter == ListsUpTo(S, n - 1)
         IN  shorter \cup { Append(l, m) : l \in {s \in shorter : Len(s) = n - 1}, m \in S }

\* str.strip() on the explored filenames.
Strip(name) ==
    CASE name = <<" photo", "jpg">> -> <<"photo", "jpg">>
      [] OTHER -> name

\* Arguments with which the constructor is explored: filenames with and
\* without an allowed extension, declared sizes around the ceiling, payloads
\* whose length is or is not the declared size, content types.
CtorFilenames ==
    { <<"photo", "jpg">>, <<" photo", "jpg">>, <<"", "jpg">>, <<"pic", "PNG">>,
      <<"clip", "MOV">>, <<"lap", "mp4">>, <<"anim", "gif">>, <<"scan", "jpeg">>,
      <<"old", "avi">>, <<"notes", "txt">>, <<"shot", "heic">>, <<"cam", "m4v">>,
      <<"photo", "jpg ">>, <<"jpg">>, <<"">>, <<"archive", "tar", "gz">> }
CtorSizes == {-1, 0, 15, 1024, 100 * MiB, 100 * MiB + 1, 200 * MiB}
CtorPayloadLengths == {15, 1024, 100 * MiB + 1}
CtorContentTypes == {"image/jpeg", ""}

ConstructorArgs ==
    { [filename |-> f, content_type |-> ct, size_bytes |-> n, data |-> Raw("arg", k)] :
        f \in CtorFilenames, ct \in CtorContentTypes, n \in CtorSizes,
        k \in CtorPayloadLengths }

\* MediaUpload(filename=..., content_type=..., size_bytes=..., data=...): the
\* value, with the filename validate_filename returns, or the validation error.
MediaUpload(a) ==
    IF MediaUploadAccepted(a)
    THEN [kind |-> "return", value |-> [a EXCEPT !.filename = Strip(a.filename)]]
    ELSE [kind |-> "raise", error |-> [type |-> "ValidationError", detail |-> "MediaUpload"]]

\* ------------------------------------------------------------ transcoders
\* What a transcoder call delivers: a (payload, filename) pair or an exception.
Returned(d, f) == [raised |-> FALSE, data |-> d, filename |-> f, error |-> "none"]
Raised(e) == [raised |-> TRUE, data |-> Raw("none", 0), filename |-> <<>>, error |-> e]

Max(a, b) == IF a >= b THEN a ELSE b
Min(a, b) == IF a <= b THEN a ELSE b

\* What the imaging library does with one input: whether decoding works, the
\* format attribute of the image object at the time of saving ("None" when
\* the object carries no format), whether each save works and how long its
\* output is.
ImageEnvs ==
    [ decode_ok : BOOLEAN,
      format    : {"JPEG", "PNG", "None"},
      save1_ok  : BOOLEAN,
      len1      : {1 * MiB, 11 * MiB},
      save2_ok  : BOOLEAN,
      len2      : {2 * MiB, 12 * MiB} ]

\* StorageService.compress_image
compress_image(image_data, file_name, env) ==
    IF ~env.decode_ok THEN Raised("cannot identify image file")
    ELSE
    LET original_format == env.format
        to_jpeg == \/ original_format \in {"HEIC", "HEIF"}
                   \/ EndsWithExt(file_name, "heic")
                   \/ EndsWithExt(file_name, "heif")
                   \/ (original_format = "PNG" /\ image_data.len > 2 * MiB)
        format_name == IF to_jpeg THEN "JPEG" ELSE original_format
        quality1 == IF format_name = "JPEG" THEN image_quality ELSE 0
        first_name == IF to_jpeg THEN with_suffix(file_name, "jpg") ELSE file_name
        first == [id |-> image_data.id,
                  enc |-> [format |-> format_name, quality |-> quality1],
                  len |-> env.len1]
        quality == Max(50, image_quality - 20)
        second == [id |-> image_data.id,
                   enc |-> [format |-> "JPEG", quality |-> quality],
                   len |-> env.len2]
    IN  IF format_name = "None" \/ ~env.save1_ok
        THEN Raised("image save failed")
        ELSE IF first.len > max_compressed_image_size
             THEN IF ~env.save2_ok
                  THEN Raised("image save failed")
                  ELSE Returned(second, with_suffix(file_name, "jpg"))
             ELSE Returned(first, first_name)

\* What the video library does with one input: the step that fails, if any,
\* and the length of the output of each encoding pass.
VideoEnvs ==
    [ fails : {"none", "write_input", "decode", "encode1", "decode2", "encode2"},
      len1  : {20 * MiB, 51 * MiB},
      len2  : {30 * MiB} ]

\* compress_video without the final renaming.
compress_video_keeps_name(video_data, file_name, backend, env) ==
    IF ~backend THEN Returned(video_data, file_name)
    ELSE IF env.fails \in {"write_input", "decode", "encode1"}
         THEN Raised(env.fails)
         ELSE Returned([id |-> video_data.id,
                        enc |-> [format |-> "mp4", quality |-> 1000],
                        len |-> env.len1], file_name)

\* StorageService.compress_video
compress_video(video_data, file_name, backend, env) ==
    IF ~backend THEN Returned(video_data, file_name)
    ELSE
    LET first == [id |-> video_data.id,
                  enc |-> [format |-> "mp4", quality |-> 1000],
                  len |-> env.len1]
        second == [id |-> video_data.id,
                   enc |-> [format |-> "mp4", quality |-> 500],
                   len |-> env.len2]
        new_name == with_suffix(file_name, "mp4")
    IN  IF env.fails \in {"write_input", "decode", "encode1"}
        THEN Raised(env.fails)
        ELSE IF first.len > max_compressed_video_size
             THEN IF env.fails \in {"decode2", "encode2"}
                  THEN Raised(env.fails)
                  ELSE Returned(second, new_name)
             ELSE Returned(first, new_name)

\* The sets of temporary files one compress_video call can leave behind:
\* nothing without the backend; the input copy when writing it fails, the
\* inner try with its finally not yet entered; otherwise what the passes
\* wrote (a failed write_videofile may leave part of the output and its
\* temporary audio file) less what the finally clause unlinks, which is
\* nothing when the first unlink raises and only the input copy when the
\* second does.
TempFilesLeft(backend, env) ==
    IF ~backend THEN {{}}
    ELSE IF env.fails = "write_input" THEN {{"input"}}
    ELSE
    LET after_first ==
          CASE env.fails = "decode"  -> {{"input"}}
            [] env.fails = "encode1" ->
                 { {"input"} \cup left : left \in SUBSET {"output", "audio"} }
            [] OTHER -> {{"input", "output"}}
        second_runs == /\ env.fails \notin {"decode", "encode1"}
                       /\ env.len1 > max_compressed_video_size
        after_second ==
          IF second_runs /\ env.fails = "encode2"
          THEN { t \cup left : t \in after_first, left \in SUBSET {"audio2"} }
          ELSE after_first
    IN  UNION { { t, t \ {"input"}, t \ {"input", "output"} } : t \in after_second }

\* StorageService.validate_media_file
validate_media_file(name, file_size) ==
    LET file_ext == file_ext_of(name)
    IN  IF file_ext \notin (image_formats \cup video_formats)
        THEN [valid |-> FALSE, message |-> [type |-> "Unsupported file type", detail |-> file_ext]]
        ELSE IF file_size > max_file_size
             THEN [valid |-> FALSE, message |-> [type |-> "File too large", detail |-> "size"]]
             ELSE [valid |-> TRUE, message |-> [type |-> "Valid", detail |-> ""]]

\* ------------------------------------------------------------------ state
VARIABLES
    max_retries,        \* StorageService.max_retries
    MOVIEPY_AVAILABLE,  \* whether the video backend was importable
    nest_asyncio,       \* what the nest_asyncio of the process is
    pc,                 \* position of the running call
    entry,              \* the top-level call: "upload", "process" or "batch"
    \* batch_process_media
    media_uploads, i, results, batch_callback, batch_sink_log, batch_result,
    \* process_and_upload_media
    media_upload, progress_callback, media_type, compressed_data, new_filename,
    sink_log, proc_result,
    transcode_result,   \* what the transcoder call of the running call delivered
    \* upload_media_with_retry and _upload_media
    file_data, filename, content_type, attempt, trace, last_attempt, up_result,
    puts,               \* the put-object requests of the running upload call
    \* storage collaborator and uuid source
    keys_put, next_token,
    \* the last MediaUpload(...) constructor call: its arguments and outcome
    ctor_args, ctor_result,
    \* one compress_video call: position, arguments, what the video library
    \* does, the temporary files that exist, and what the call delivered
    v_pc, v_data, v_filename, v_env, temp_files, v_result,
    \* width and height of the video of that call, and the resize calls made
    v_size, v_resizes,
    \* SupabaseClient.max_retries and one _execute_with_retry call
    db_max_retries, r_pc, r_attempt, r_trace, r_result,
    \* CacheUtils: whether st.session_state has a "cache", its entries, the
    \* clock, the last value stored under each key and not cleared since, and
    \* the last call with what it returned
    cache_present, session_cache, now, stored, cache_op,
    \* one AsyncUtils.batch_process call: arguments, position, loop index,
    \* results so far, the items of the running batch that have not completed,
    \* the completions in the order they happened, and what the call delivered
    a_items, a_batch_size, a_pc, a_i, a_results, a_pending, a_completed, a_result,
    \* the module-level supabase_client, its client attribute, whether the
    \* connection test of that connection has passed, the get_supabase_client
    \* calls (position, number, outcome) and the initialize() coroutine each
    \* of them started
    supabase_client, client_conn, conn_tested, g_pc, g_calls, g_result, inits,
    \* one compress_image call: position, arguments, what the file holds, the
    \* image object, the save calls made so far, new_filename, and what the
    \* call delivered
    ci_pc, ci_data, ci_filename, ci_src, image, saves, ci_new_filename, ci_result

confVars  == <<max_retries, MOVIEPY_AVAILABLE, nest_asyncio>>
batchVars == <<media_uploads, i, results, batch_callback, batch_sink_log, batch_result>>
procVars  == <<media_upload, progress_callback, media_type, compressed_data, new_filename,
               sink_log, proc_result, transcode_result>>
upVars    == <<file_data, filename, content_type, attempt, trace, last_attempt, up_result, puts>>
storeVars == <<keys_put, next_token>>
pipelineVars == <<confVars, pc, entry, batchVars, procVars, upVars, storeVars>>
ctorVars  == <<ctor_args, ctor_result>>
\* The state of the components outside the running pipeline call.
videoVars == <<v_pc, v_data, v_filename, v_env, temp_files, v_result, v_size, v_resizes>>
retryVars == <<db_max_retries, r_pc, r_attempt, r_trace, r_result>>
cacheVars == <<cache_present, session_cache, now, stored, cache_op>>
asyncVars == <<a_items, a_batch_size, a_pc, a_i, a_results, a_pending, a_completed, a_result>>
clientVars == <<supabase_client, client_conn, conn_tested, g_pc, g_calls, g_result, inits>>
imageVars == <<ci_pc, ci_data, ci_filename, ci_src, image, saves, ci_new_filename, ci_result>>
otherVars == <<ctorVars, videoVars, retryVars, cacheVars, asyncVars, clientVars, imageVars>>
\* The same without the temporary files, which the video branch of the
\* pipeline adds to, and without the global client, which the upload stage
\* obtains and initializes.
videoCall == <<v_pc, v_data, v_filename, v_env, v_result, v_size, v_resizes>>
notTemp   == <<ctorVars, videoCall, retryVars, cacheVars, asyncVars, clientVars, imageVars>>
libVars   == <<ctorVars, videoVars, retryVars, cacheVars, asyncVars, imageVars>>
\* Everything but the state of one component.
notCtor   == <<pipelineVars, videoVars, retryVars, cacheVars, asyncVars, clientVars, imageVars>>
notVideo  == <<pipelineVars, ctorVars, retryVars, cacheVars, asyncVars, clientVars, imageVars>>
notRetry  == <<pipelineVars, ctorVars, videoVars, cacheVars, asyncVars, clientVars, imageVars>>
notCache  == <<pipelineVars, ctorVars, videoVars, retryVars, asyncVars, clientVars, imageVars>>
notAsync  == <<pipelineVars, ctorVars, videoVars, retryVars, cacheVars, clientVars, imageVars>>
notClient == <<pipelineVars, ctorVars, videoVars, retryVars, cacheVars, asyncVars, imageVars>>
notImage  == <<pipelineVars, ctorVars, videoVars, retryVars, cacheVars, asyncVars, clientVars>>
vars == <<pipelineVars, otherVars>>

\* ---------------------------------------------------------------- values
Err(type, detail) == [type |-> type, detail |-> detail]
NoResult == [kind |-> "none"]
Return(v) == [kind |-> "return", value |-> v]
ReturnNone == [kind |-> "return_none"]
Raise(e) == [kind |-> "raise", error |-> e]

NoData == Raw("none", 0)
NoUpload == [filename |-> <<>>, content_type |-> "", size_bytes |-> 0, data |-> NoData]
NoKey == [timestamp |-> "", token |-> 0, filename |-> <<>>]
NoTranscode == [raised |-> FALSE, data |-> NoData, filename |-> <<>>, error |-> "not called"]
NoAttempt == [outcome |-> "none", key |-> NoKey, put_called |-> FALSE, url_requested |-> FALSE]

\* datetime.now().strftime("%Y/%m") at the time of an attempt.
Timestamps == {"2026/10"}

\* The key without its random token.
unique_filename_no_token(timestamp, token, name) ==
    [timestamp |-> timestamp, token |-> 0, filename |-> name]

\* f"{timestamp}/{uuid.uuid4()}_{filename}"
unique_filename(timestamp, token, name) ==
    [timestamp |-> timestamp, token |-> token, filename |-> name]

\* storage.get_public_url(key)
get_public_url(key) == [bucket |-> "racing-notes-v5-media", key |-> key]

\* len(file_data) / (1024 * 1024), kept as an exact fraction
size_mb_of(d) == [num |-> d.len, den |-> MiB]

\* How one _upload_media call can go once it holds a connection: put-object
\* raises, put-object returns a result carrying an error, get-public-url
\* raises, or everything works.
PutOutcomes == {"put_raises", "put_error", "url_raises", "ok"}

\* How one _upload_media call can go: get_supabase_client raises, the client
\* it returned has no connection yet (client.client is None), or one of the
\* outcomes with a connection.
AttemptOutcomes == {"client_raises", "no_connection"} \cup PutOutcomes

Sinks == {"None", "sink"}

\* No pipeline call is running.
PipelineIdle ==
    /\ pc = "idle"
    /\ entry = "none"
    /\ media_uploads = <<>> /\ i = 0 /\ results = <<>>
    /\ batch_callback = "None" /\ batch_sink_log = <<>> /\ batch_result = NoResult
    /\ media_upload = NoUpload /\ progress_callback = "None" /\ media_type = "none"
    /\ compressed_data = NoData /\ new_filename = <<>>
    /\ sink_log = <<>> /\ proc_result = NoResult /\ transcode_result = NoTranscode
    /\ file_data = NoData /\ filename = <<>> /\ content_type = ""
    /\ attempt = 0 /\ trace = <<>> /\ last_attempt = NoAttempt /\ up_result = NoResult
    /\ puts = <<>>
    /\ keys_put = {} /\ next_token = 1

\* No constructor call has been made.
CtorIdle == ctor_args = NoUpload /\ ctor_result = NoResult

\* No compress_video call has been made.
VideoIdle ==
    /\ v_pc = "idle" /\ v_data = NoData /\ v_filename = <<>>
    /\ v_env = [fails |-> "none", len1 |-> 0, len2 |-> 0]
    /\ temp_files = {} /\ v_result = NoTranscode
    /\ v_size = <<0, 0>> /\ v_resizes = <<>>

\* No _execute_with_retry call has been made.
RetryIdle == r_pc = "idle" /\ r_attempt = 0 /\ r_trace = <<>> /\ r_result = NoResult

\* The keys, values, lifetimes and patterns the cache is used with.
CacheKeys == {"notes_1", "tracks"}
CacheValues == {"v1", "v2"}
CacheTTLs == {0, 2}
CachePatterns == {"None", "notes", "s", "zzz"}
NoEntry == [data |-> "None", timestamp |-> -1, ttl |-> -1]
NoCall == [op |-> "none", key |-> "", result |-> "None"]

\* A fresh session: st.session_state has no "cache" yet.
CacheIdle ==
    /\ cache_present = FALSE
    /\ session_cache = [k \in CacheKeys |-> NoEntry]
    /\ now = 0
    /\ stored = [k \in CacheKeys |-> NoEntry]
    /\ cache_op = NoCall

\* No batch_process call has been made.
AsyncIdle ==
    /\ a_items = <<>> /\ a_batch_size = 10 /\ a_pc = "idle" /\ a_i = 0
    /\ a_results = <<>> /\ a_pending = {} /\ a_completed = <<>> /\ a_result = NoResult

\* An initialize() coroutine that was never started.
NoFrame == [pc |-> "none", attempt |-> 0, mode |-> "none"]

\* How the lazy initialization of one get_supabase_client call goes, the
\* mode of its frame.  "run": asyncio.run(initialize()) runs, nested in the
\* running loop when there is one.  "create_task": asyncio.run raises
\* RuntimeError inside a running loop and initialize() is only scheduled
\* with loop.create_task.  "loop_closed": asyncio.run raises RuntimeError
\* because the current loop is closed, and so does loop.run_until_complete,
\* which leaves the call.  "import_error": nest_asyncio cannot be imported.
\* The initialize() that initialize_client awaits has the mode "await", or
\* "run_then_await" while the lazy initialization before it is running.

\* The nest_asyncio of the process: the library, whose apply() makes
\* asyncio.run re-entrant; a module whose apply() leaves asyncio.run as it
\* is; or none that can be imported.
NestAsyncio == {"real", "inert", "missing"}

\* The mode of a lazy initialization that starts inside the running event
\* loop.
LoopInitMode(lib) ==
    CASE lib = "real"  -> "run"
      [] lib = "inert" -> "create_task"
      [] OTHER         -> "import_error"

\* The modes of a lazy initialization wherever the caller runs: outside a
\* running loop asyncio.run works unpatched, and patched it uses the current
\* loop, which may be closed.
CallInitModes(lib) ==
    CASE lib = "real"  -> {"run", "loop_closed"}
      [] lib = "inert" -> {"run", "create_task"}
      [] OTHER         -> {"import_error"}

\* A new initialize() coroutine.
NewFrame(mode) == [pc |-> "i_attempt", attempt |-> 0, mode |-> mode]

\* supabase_client = None at import time; no get_supabase_client call yet.
ClientIdle ==
    /\ supabase_client = "None" /\ client_conn = "None" /\ conn_tested = FALSE
    /\ g_pc = "idle" /\ g_calls = 0 /\ g_result = NoResult
    /\ inits = [n \in 1 .. MaxCalls |-> NoFrame]

\* What a file holds that the imaging library has not opened.
NoSource == [decodable |-> FALSE, format |-> "None", mode |-> "None",
             orientation |-> 0, width |-> 0, height |-> 0]
\* No image object.
NoImage == [format |-> "None", mode |-> "None", width |-> 0, height |-> 0]

\* No compress_image call has been made.
ImageIdle ==
    /\ ci_pc = "idle" /\ ci_data = NoData /\ ci_filename = <<>> /\ ci_src = NoSource
    /\ image = NoImage /\ saves = <<>> /\ ci_new_filename = <<>>
    /\ ci_result = NoTranscode

\* The components outside the pipeline before their first use.
OtherIdle ==
    CtorIdle /\ VideoIdle /\ RetryIdle /\ CacheIdle /\ AsyncIdle /\ ClientIdle /\ ImageIdle

\* The database client is built with the default max_retries.
DefaultClient == db_max_retries = default_db_max_retries

\* Values of max_retries explored with an inert nest_asyncio, under which
\* every scheduled initialize() runs beside the upload loop.
InertMaxRetries == {0, 1, 2}

Init ==
    /\ max_retries \in MaxRetriesChoices
    /\ MOVIEPY_AVAILABLE \in BOOLEAN
    /\ nest_asyncio \in NestAsyncio
    /\ nest_asyncio = "inert" => max_retries \in InertMaxRetries
    /\ DefaultClient
    /\ PipelineIdle
    /\ OtherIdle

\* A default StorageService that is not called: the starting point of the
\* specifications of the other components.
ServiceIdle ==
    /\ max_retries = default_max_retries
    /\ MOVIEPY_AVAILABLE = TRUE
    /\ nest_asyncio = "real"
    /\ PipelineIdle
    /\ DefaultClient

\* The starting point of the specifications of the components that do not
\* depend on how the services are configured.
LibInit == ServiceIdle /\ OtherIdle

\* ------------------------------------------------ upload_media_with_retry
\* The call made with a content type worked out from the name to upload.
StartUpload_type_of_name(d, f, ct) ==
    /\ file_data' = d /\ filename' = f
    /\ content_type' = (CASE file_ext_of(f) = "jpg" -> "image/jpeg"
                           [] file_ext_of(f) = "mp4" -> "video/mp4"
                           [] OTHER -> ct)
    /\ attempt' = 0 /\ trace' = <<>> /\ last_attempt' = NoAttempt
    /\ up_result' = NoResult /\ puts' = <<>>
    /\ pc' = "u_loop"

\* Entering upload_media_with_retry(d, f, ct).
StartUpload(d, f, ct) ==
    /\ file_data' = d /\ filename' = f /\ content_type' = ct
    /\ attempt' = 0 /\ trace' = <<>> /\ last_attempt' = NoAttempt
    /\ up_result' = NoResult /\ puts' = <<>>
    /\ pc' = "u_loop"

\* A caller invokes upload_media_with_retry directly.
call_upload_media_with_retry ==
    /\ pc = "idle"
    /\ \E m \in MediaUploads : StartUpload(m.data, m.filename, m.content_type)
    /\ entry' = "upload"
    /\ UNCHANGED <<confVars, otherVars, batchVars, procVars, storeVars>>

\* for attempt in range(self.max_retries): the loop goes on while an index is
\* left; when none is left the function falls off its end and returns None.
for_attempt ==
    /\ pc = "u_loop"
    /\ IF attempt < max_retries
       THEN pc' = "u_attempt" /\ UNCHANGED up_result
       ELSE pc' = "u_done" /\ up_result' = ReturnNone
    /\ UNCHANGED <<confVars, otherVars, entry, batchVars, procVars, storeVars,
                   file_data, filename, content_type, attempt, trace, last_attempt, puts>>

\* The error an _upload_media call raises for a failing outcome.
AttemptError(o) ==
    CASE o = "client_raises" -> Err("ClientError", "get_supabase_client")
      [] o = "no_connection" -> Err("AttributeError", "client.client is None")
      [] o = "put_raises"    -> Err("StorageError", "upload")
      [] o = "put_error"     -> Err("Storage upload failed", "result error")
      [] o = "url_raises"    -> Err("StorageError", "get_public_url")

\* Off by one: the delay after a failure is taken one place too far.
delay_index_late(a) == a + 2

\* The delay index used after a failure of the attempt with 0-based index a.
delay_index(a) == a + 1

\* The except clause with the bound of the last attempt off by one: it sleeps
\* after the last attempt instead of giving up.
after_failure_no_give_up(a, e) ==
    IF a < max_retries
    THEN IF delay_index(a) \in DOMAIN retry_delays
         THEN [next |-> "u_sleep", result |-> NoResult]
         ELSE [next |-> "u_done", result |-> Raise(Err("IndexError", "retry_delays"))]
    ELSE [next |-> "u_done",
          result |-> Raise([type |-> "Failed to upload", attempts |-> max_retries, last |-> e])]

\* What the except clause of upload_media_with_retry does with error e of the
\* attempt with 0-based index a: sleep, fail on the delay lookup, or give up.
after_failure(a, e) ==
    IF a < max_retries - 1
    THEN IF delay_index(a) \in DOMAIN retry_delays
         THEN [next |-> "u_sleep", result |-> NoResult]
         ELSE [next |-> "u_done", result |-> Raise(Err("IndexError", "retry_delays"))]
    ELSE [next |-> "u_done",
          result |-> Raise([type |-> "Failed to upload", attempts |-> max_retries, last |-> e])]

\* The public URL requested whatever the put-object result carries.
UrlRequested_before_check(o) == o \in {"put_error", "url_raises", "ok"}

\* Whether an _upload_media call that goes as o reaches get_public_url: only
\* past the put-object call and the test of its result.
UrlRequested(o) == o \in {"url_raises", "ok"}

\* The end of one iteration of the try body, the _upload_media call having
\* gone as o: what the call left in the bucket, then either the return or the
\* except clause.
AttemptEnds(o, timestamp) ==
    LET has_key == o \in PutOutcomes
        key == IF has_key THEN unique_filename(timestamp, next_token, filename) ELSE NoKey
        info == [outcome |-> o, key |-> key, put_called |-> has_key,
                 url_requested |-> UrlRequested(o)]
        cont == after_failure(attempt, AttemptError(o))
    IN  /\ last_attempt' = info
        /\ next_token' = IF has_key THEN next_token + 1 ELSE next_token
        /\ keys_put' = IF has_key THEN keys_put \cup {key} ELSE keys_put
        /\ puts' = IF has_key
                   THEN Append(puts, [key |-> key, data |-> file_data,
                                      content_type |-> content_type])
                   ELSE puts
        /\ trace' = Append(trace, [ev |-> "attempt", n |-> attempt + 1, ok |-> o = "ok"])
        /\ IF o = "ok"
           THEN /\ up_result' = Return([public_url |-> get_public_url(key),
                                        size_mb |-> size_mb_of(file_data)])
                /\ pc' = "u_done"
           ELSE /\ up_result' = cont.result
                /\ pc' = cont.next

\* The pipeline call, if any, is not executing: none is running, it has
\* ended, it sleeps between two upload attempts, or it waits for the nested
\* run of initialize().  Only then does the event loop run other tasks.
Suspended ==
    \/ pc \in {"idle", "u_sleep", "u_client", "b_done"}
    \/ (pc = "u_done" /\ entry = "upload")
    \/ (pc = "p_done" /\ entry = "process")

\* An unpatched asyncio.run is running the initialize() of a
\* get_supabase_client call in a loop of its own, where no task scheduled
\* on another loop runs.
PlainRun == nest_asyncio = "inert" /\ g_pc = "g_wait" /\ inits[g_calls].mode = "run"

\* The event loop is free to go on with the initialize() coroutine of frame
\* n: a scheduled task goes on only while the code that scheduled it is
\* suspended; a coroutine that is awaited or run goes on wherever its
\* caller waits for it.
Eligible(n) == inits[n].mode = "create_task" => Suspended /\ ~PlainRun

\* The initialize() coroutines that are ready to run an attempt.
Ready == { n \in DOMAIN inits : inits[n].pc = "i_attempt" /\ Eligible(n) }

\* Those of them that are executing already: a coroutine that was just
\* awaited or run, or one that has come back from its sleep.  The others
\* are scheduled tasks that have not started yet.
Resumed == { n \in Ready : inits[n].mode # "create_task" \/ inits[n].attempt > 0 }

\* The one that runs next: a coroutine that is executing goes on; the
\* scheduled tasks start in the order they were scheduled, which is the
\* order of their slots.
NextReady ==
    LET first == IF Resumed # {} THEN Resumed ELSE Ready
    IN  CHOOSE n \in first : \A m \in first : n <= m

\* The sleep of frame n ends and the coroutine goes on: one coroutine
\* executes at a time.  A task scheduled while the timer was falling due
\* starts after it.
TimerFires(n) == Resumed = {} /\ Eligible(n)

\* The slots of inits that hold no running initialize().
FreeSlots == { n \in DOMAIN inits : inits[n].pc \in {"none", "i_returned", "i_raised"} }
FirstFree == CHOOSE n \in FreeSlots : \A m \in FreeSlots : n <= m

\* One iteration of the try body when the global client has a connection:
\* get_supabase_client() returns it at once and the whole _upload_media call
\* follows without a suspension.
_upload_media ==
    /\ pc = "u_attempt"
    /\ client_conn # "None"
    /\ \E o \in PutOutcomes, timestamp \in Timestamps : AttemptEnds(o, timestamp)
    /\ UNCHANGED <<confVars, otherVars, entry, batchVars, procVars,
                   file_data, filename, content_type, attempt>>

\* The first line of _upload_media when the global client has no connection:
\* get_supabase_client() creates the client when missing and initializes it
\* lazily.  The import of nest_asyncio fails and the attempt ends with that
\* error; or initialize() is only scheduled, the client comes back with
\* client.client still None and client.client.storage raises; or
\* asyncio.run(initialize()) runs nested in the running loop and the call
\* waits for it.
upload_get_client ==
    /\ pc = "u_attempt"
    /\ client_conn = "None"
    /\ supabase_client' = "client"
    /\ \E mode \in {LoopInitMode(nest_asyncio)}, timestamp \in Timestamps :
         CASE mode = "import_error" ->
                /\ AttemptEnds("client_raises", timestamp)
                /\ UNCHANGED inits
           [] mode = "create_task" ->
                /\ FreeSlots # {}
                /\ inits' = [inits EXCEPT ![FirstFree] = NewFrame(mode)]
                /\ AttemptEnds("no_connection", timestamp)
           [] OTHER ->
                /\ FreeSlots # {}
                /\ inits' = [inits EXCEPT ![FirstFree] = NewFrame(mode)]
                /\ pc' = "u_client"
                /\ UNCHANGED <<trace, last_attempt, up_result, puts, storeVars>>
    /\ UNCHANGED <<confVars, libVars, client_conn, conn_tested, g_pc, g_calls, g_result,
                   entry, batchVars, procVars, file_data, filename, content_type, attempt>>

\* The nested run of initialize() has finished: its exception leaves
\* get_supabase_client and the attempt; otherwise the rest of _upload_media
\* follows with the connection just made.
upload_client_ready ==
    /\ pc = "u_client"
    /\ \E n \in DOMAIN inits :
         /\ inits[n].mode = "run"
         /\ inits[n].pc \in {"i_returned", "i_raised"}
         /\ inits' = [inits EXCEPT ![n] = NoFrame]
         /\ \E o \in (IF inits[n].pc = "i_raised" THEN {"client_raises"} ELSE PutOutcomes),
               timestamp \in Timestamps : AttemptEnds(o, timestamp)
    /\ UNCHANGED <<confVars, libVars, supabase_client, client_conn, conn_tested,
                   g_pc, g_calls, g_result,
                   entry, batchVars, procVars, file_data, filename, content_type, attempt>>

\* await asyncio.sleep(self.retry_delays[attempt]) has elapsed; the loop
\* moves to the next index.  A task that was ready when the sleep began has
\* run by then.
sleep_elapsed ==
    /\ pc = "u_sleep"
    /\ Ready = {}
    /\ trace' = Append(trace, [ev |-> "sleep", n |-> retry_delays[delay_index(attempt)], ok |-> TRUE])
    /\ attempt' = attempt + 1
    /\ pc' = "u_loop"
    /\ UNCHANGED <<confVars, otherVars, entry, batchVars, procVars, storeVars,
                   file_data, filename, content_type, last_attempt, up_result, puts>>

\* ----------------------------------------------- process_and_upload_media
\* Entering process_and_upload_media(m, cb).
StartProcess(m, cb) ==
    /\ media_upload' = m /\ progress_callback' = cb
    /\ media_type' = "none" /\ compressed_data' = NoData /\ new_filename' = <<>>
    /\ sink_log' = <<>> /\ proc_result' = NoResult /\ transcode_result' = NoTranscode
    /\ pc' = "p_start"

\* The except clause of process_and_upload_media logs and re-raises.
ProcRaises(e) == proc_result' = Raise(e) /\ pc' = "p_done"

SinkError == Err("SinkError", "progress_callback")

\* A caller invokes process_and_upload_media directly.
call_process_and_upload_media ==
    /\ pc = "idle"
    /\ \E m \in MediaUploads, cb \in Sinks : StartProcess(m, cb)
    /\ entry' = "process"
    /\ UNCHANGED <<confVars, otherVars, batchVars, upVars, storeVars>>

\* progress_callback(0, "Starting compression...") when a sink was supplied;
\* the sink may raise.
checkpoint_start ==
    /\ pc = "p_start"
    /\ IF progress_callback = "None"
       THEN pc' = "p_classify" /\ UNCHANGED <<sink_log, proc_result>>
       ELSE \E sink_raises \in BOOLEAN :
              /\ sink_log' = Append(sink_log, 0)
              /\ IF sink_raises THEN ProcRaises(SinkError)
                 ELSE pc' = "p_classify" /\ UNCHANGED proc_result
    /\ UNCHANGED <<confVars, otherVars, entry, batchVars, upVars, storeVars,
                   media_upload, progress_callback, media_type, compressed_data, new_filename,
                   transcode_result>>

\* The kind the extension test of process_and_upload_media selects.
classify(name) ==
    LET file_ext == file_ext_of(name)
    IN  IF file_ext \in image_formats THEN "image"
        ELSE IF file_ext \in video_formats THEN "video"
        ELSE "unsupported"

\* Determine media type, then progress_callback(25, ...) in the chosen branch.
determine_media_type ==
    /\ pc = "p_classify"
    /\ LET kind == classify(media_upload.filename)
       IN  IF kind = "unsupported"
           THEN /\ ProcRaises(Err("Unsupported file type", file_ext_of(media_upload.filename)))
                /\ UNCHANGED <<media_type, sink_log>>
           ELSE /\ media_type' = kind
                /\ IF progress_callback = "None"
                   THEN pc' = "p_transcode" /\ UNCHANGED <<sink_log, proc_result>>
                   ELSE \E sink_raises \in BOOLEAN :
                          /\ sink_log' = Append(sink_log, 25)
                          /\ IF sink_raises THEN ProcRaises(SinkError)
                             ELSE pc' = "p_transcode" /\ UNCHANGED proc_result
    /\ UNCHANGED <<confVars, otherVars, entry, batchVars, upVars, storeVars,
                   media_upload, progress_callback, compressed_data, new_filename,
                   transcode_result>>

\* The image branch without the inner try: the exception of compress_image
\* leaves the call.
transcode_image_fatal ==
    /\ pc = "p_transcode" /\ media_type = "image"
    /\ \E env \in ImageEnvs :
         LET r == compress_image(media_upload.data, media_upload.filename, env)
         IN  /\ transcode_result' = r
             /\ IF r.raised
                THEN /\ ProcRaises(Err("ImageTranscodeError", r.error))
                     /\ UNCHANGED <<compressed_data, new_filename>>
                ELSE /\ compressed_data' = r.data /\ new_filename' = r.filename
                     /\ pc' = "p_cb75" /\ UNCHANGED proc_result
    /\ UNCHANGED <<confVars, otherVars, entry, batchVars, upVars, storeVars,
                   media_upload, progress_callback, media_type, sink_log>>

\* The image branch: compress_image, or the original bytes and name when it
\* raises.
transcode_image ==
    /\ pc = "p_transcode" /\ media_type = "image"
    /\ \E env \in ImageEnvs :
         LET r == compress_image(media_upload.data, media_upload.filename, env)
         IN  /\ transcode_result' = r
             /\ IF r.raised
                THEN compressed_data' = media_upload.data /\ new_filename' = media_upload.filename
                ELSE compressed_data' = r.data /\ new_filename' = r.filename
    /\ pc' = "p_cb75"
    /\ UNCHANGED <<confVars, otherVars, entry, batchVars, upVars, storeVars,
                   media_upload, progress_callback, media_type, sink_log, proc_result>>

\* The video branch with the fallback of the image branch: the original
\* bytes are uploaded when compress_video raises.
transcode_video_fallback ==
    /\ pc = "p_transcode" /\ media_type = "video"
    /\ \E env \in VideoEnvs :
         LET r == compress_video(media_upload.data, media_upload.filename, MOVIEPY_AVAILABLE, env)
         IN  /\ transcode_result' = r
             /\ \E left \in TempFilesLeft(MOVIEPY_AVAILABLE, env) :
                  temp_files' = temp_files \cup left
             /\ IF r.raised
                THEN compressed_data' = media_upload.data /\ new_filename' = media_upload.filename
                ELSE compressed_data' = r.data /\ new_filename' = r.filename
    /\ pc' = "p_cb75"
    /\ UNCHANGED <<confVars, notTemp, entry, batchVars, upVars, storeVars,
                   media_upload, progress_callback, media_type, sink_log, proc_result>>

\* The video branch: compress_video, whose exception leaves the call; the
\* temporary files the call leaves behind stay in the temp directory.
transcode_video ==
    /\ pc = "p_transcode" /\ media_type = "video"
    /\ \E env \in VideoEnvs :
         LET r == compress_video(media_upload.data, media_upload.filename, MOVIEPY_AVAILABLE, env)
         IN  /\ transcode_result' = r
             /\ \E left \in TempFilesLeft(MOVIEPY_AVAILABLE, env) :
                  temp_files' = temp_files \cup left
             /\ IF r.raised
                THEN /\ ProcRaises(Err("VideoTranscodeError", r.error))
                     /\ UNCHANGED <<compressed_data, new_filename>>
                ELSE /\ compressed_data' = r.data /\ new_filename' = r.filename
                     /\ pc' = "p_cb75" /\ UNCHANGED proc_result
    /\ UNCHANGED <<confVars, notTemp, entry, batchVars, upVars, storeVars,
                   media_upload, progress_callback, media_type, sink_log>>

\* progress_callback(75, "Uploading to storage..."), then the call of
\* upload_media_with_retry(compressed_data, new_filename, content_type).
checkpoint_upload ==
    /\ pc = "p_cb75"
    /\ \E sink_raises \in (IF progress_callback = "None" THEN {FALSE} ELSE BOOLEAN) :
         /\ sink_log' = IF progress_callback = "None" THEN sink_log ELSE Append(sink_log, 75)
         /\ IF sink_raises
            THEN ProcRaises(SinkError) /\ UNCHANGED upVars
            ELSE /\ StartUpload(compressed_data, new_filename, media_upload.content_type)
                 /\ UNCHANGED proc_result
    /\ UNCHANGED <<confVars, otherVars, entry, batchVars, storeVars,
                   media_upload, progress_callback, media_type, compressed_data, new_filename,
                   transcode_result>>

\* upload_media_with_retry has delivered: its exception leaves the call, a
\* None cannot be unpacked into (public_url, size_mb), and a pair is followed
\* by progress_callback(100, "Upload complete!") and the return.
after_upload ==
    /\ pc = "u_done" /\ entry # "upload"
    /\ CASE up_result.kind = "raise" ->
              ProcRaises(up_result.error) /\ UNCHANGED sink_log
         [] up_result.kind = "return_none" ->
              ProcRaises(Err("TypeError", "cannot unpack None")) /\ UNCHANGED sink_log
         [] up_result.kind = "return" ->
              \E sink_raises \in (IF progress_callback = "None" THEN {FALSE} ELSE BOOLEAN) :
                /\ sink_log' = IF progress_callback = "None" THEN sink_log ELSE Append(sink_log, 100)
                /\ IF sink_raises
                   THEN ProcRaises(SinkError)
                   ELSE /\ proc_result' = Return([public_url |-> up_result.value.public_url,
                                                  size_mb |-> up_result.value.size_mb,
                                                  new_filename |-> new_filename])
                        /\ pc' = "p_done"
    /\ UNCHANGED <<confVars, otherVars, entry, batchVars, upVars, storeVars,
                   media_upload, progress_callback, media_type, compressed_data, new_filename,
                   transcode_result>>

\* ---------------------------------------------------- batch_process_media
\* Values of max_retries with which the batch entry point is explored.
BatchMaxRetries == {1}

\* The uploads batches are made of.
BatchItems == { m \in MediaUploads : m.data.id \in {"img", "dot", "vid", "big"} }

\* A caller invokes batch_process_media.
call_batch_process_media ==
    /\ pc = "idle"
    /\ max_retries \in BatchMaxRetries
    /\ \E l \in ListsUpTo(BatchItems, MaxBatch), cb \in Sinks :
         /\ media_uploads' = l /\ batch_callback' = cb
    /\ i' = 0 /\ results' = <<>> /\ batch_sink_log' = <<>> /\ batch_result' = NoResult
    /\ entry' = "batch"
    /\ pc' = "b_loop"
    /\ UNCHANGED <<confVars, otherVars, procVars, upVars, storeVars>>

total_files == Len(media_uploads)

\* for i, media_upload in enumerate(media_uploads)
for_media_upload ==
    /\ pc = "b_loop"
    /\ pc' = IF i < total_files THEN "b_item" ELSE "b_final"
    /\ UNCHANGED <<confVars, otherVars, entry, batchVars, procVars, upVars, storeVars>>

\* The report entry of a failed item.
failure_entry(m, e) == [filename |-> m.filename, success |-> FALSE, error |-> e]

\* The report entry of a processed item.
success_entry(m, v) ==
    [filename |-> m.filename, new_filename |-> v.new_filename, success |-> TRUE,
     public_url |-> v.public_url, size_mb |-> v.size_mb]

\* The loop body with break in the place of continue: an item that fails
\* validation ends the loop.
begin_item_break ==
    /\ pc = "b_item"
    /\ LET m == media_uploads[i + 1]
           v == validate_media_file(m.filename, m.data.len)
       IN  \E sink_raises \in (IF batch_callback = "None" THEN {FALSE} ELSE BOOLEAN) :
             /\ batch_sink_log' = IF batch_callback = "None" THEN batch_sink_log
                                  ELSE Append(batch_sink_log, <<i, total_files>>)
             /\ IF sink_raises
                THEN /\ results' = Append(results, failure_entry(m, SinkError))
                     /\ i' = i + 1 /\ pc' = "b_loop"
                     /\ UNCHANGED procVars
                ELSE IF ~v.valid
                THEN /\ results' = Append(results, failure_entry(m, v.message))
                     /\ i' = i + 1 /\ pc' = "b_final"
                     /\ UNCHANGED procVars
                ELSE /\ StartProcess(m, "None")
                     /\ UNCHANGED <<results, i>>
    /\ UNCHANGED <<confVars, otherVars, entry, media_uploads, batch_callback, batch_result,
                   upVars, storeVars>>

\* The head of the loop body: the progress call, the validation, and either
\* the failed entry or the call of process_and_upload_media(media_upload).
begin_item ==
    /\ pc = "b_item"
    /\ LET m == media_uploads[i + 1]
           v == validate_media_file(m.filename, m.data.len)
       IN  \E sink_raises \in (IF batch_callback = "None" THEN {FALSE} ELSE BOOLEAN) :
             /\ batch_sink_log' = IF batch_callback = "None" THEN batch_sink_log
                                  ELSE Append(batch_sink_log, <<i, total_files>>)
             /\ IF sink_raises
                THEN /\ results' = Append(results, failure_entry(m, SinkError))
                     /\ i' = i + 1 /\ pc' = "b_loop"
                     /\ UNCHANGED procVars
                ELSE IF ~v.valid
                THEN /\ results' = Append(results, failure_entry(m, v.message))
                     /\ i' = i + 1 /\ pc' = "b_loop"
                     /\ UNCHANGED procVars
                ELSE /\ StartProcess(m, "None")
                     /\ UNCHANGED <<results, i>>
    /\ UNCHANGED <<confVars, otherVars, entry, media_uploads, batch_callback, batch_result,
                   upVars, storeVars>>

\* The frames of a finished process_and_upload_media call and of the
\* upload_media_with_retry call it made are gone.
FramesDiscarded ==
    /\ media_upload' = NoUpload /\ progress_callback' = "None" /\ media_type' = "none"
    /\ compressed_data' = NoData /\ new_filename' = <<>>
    /\ sink_log' = <<>> /\ proc_result' = NoResult /\ transcode_result' = NoTranscode
    /\ file_data' = NoData /\ filename' = <<>> /\ content_type' = ""
    /\ attempt' = 0 /\ trace' = <<>> /\ last_attempt' = NoAttempt /\ up_result' = NoResult
    /\ puts' = <<>>

\* The entry put in front of the report instead of behind it.
end_item_prepends ==
    /\ pc = "p_done" /\ entry = "batch"
    /\ LET m == media_uploads[i + 1]
       IN  results' = <<IF proc_result.kind = "return"
                        THEN success_entry(m, proc_result.value)
                        ELSE failure_entry(m, proc_result.error)>> \o results
    /\ i' = i + 1
    /\ pc' = "b_loop"
    /\ FramesDiscarded
    /\ UNCHANGED <<confVars, otherVars, entry, media_uploads, batch_callback, batch_sink_log,
                   batch_result, storeVars>>

\* process_and_upload_media has delivered: the successful entry, or the
\* failed entry built by the except clause of the loop body.
end_item ==
    /\ pc = "p_done" /\ entry = "batch"
    /\ LET m == media_uploads[i + 1]
       IN  results' = Append(results,
                             IF proc_result.kind = "return"
                             THEN success_entry(m, proc_result.value)
                             ELSE failure_entry(m, proc_result.error))
    /\ i' = i + 1
    /\ pc' = "b_loop"
    /\ FramesDiscarded
    /\ UNCHANGED <<confVars, otherVars, entry, media_uploads, batch_callback, batch_sink_log,
                   batch_result, storeVars>>

\* After the loop: the last progress call, outside every try, and the return.
finish_batch ==
    /\ pc = "b_final"
    /\ \E sink_raises \in (IF batch_callback = "None" THEN {FALSE} ELSE BOOLEAN) :
         /\ batch_sink_log' = IF batch_callback = "None" THEN batch_sink_log
                              ELSE Append(batch_sink_log, <<total_files, total_files>>)
         /\ batch_result' = IF sink_raises THEN Raise(SinkError) ELSE Return(results)
    /\ pc' = "b_done"
    /\ UNCHANGED <<confVars, otherVars, entry, media_uploads, i, results, batch_callback,
                   procVars, upVars, storeVars>>

\* ------------------------------------ get_supabase_client and initialize
\* get_supabase_client(): the global client is created when missing; when
\* its client attribute is None the initialization is run, or merely
\* scheduled, after which the call returns.
call_get_supabase_client ==
    /\ g_pc \in {"idle", "g_done"}
    /\ Resumed = {}
    /\ g_calls < MaxCalls
    /\ g_calls' = g_calls + 1
    /\ supabase_client' = "client"
    /\ IF client_conn = "None"
       THEN \E mode \in CallInitModes(nest_asyncio) :
              CASE mode = "import_error" ->
                     /\ g_result' = Raise(Err("ImportError", "nest_asyncio"))
                     /\ g_pc' = "g_done"
                     /\ UNCHANGED inits
                [] mode = "loop_closed" ->
                     /\ g_result' = Raise(Err("RuntimeError", "Event loop is closed"))
                     /\ g_pc' = "g_done"
                     /\ UNCHANGED inits
                [] mode = "create_task" ->
                     /\ inits' = [inits EXCEPT ![g_calls + 1] = NewFrame(mode)]
                     /\ g_result' = Return("client")
                     /\ g_pc' = "g_done"
                [] OTHER ->
                     /\ inits' = [inits EXCEPT ![g_calls + 1] = NewFrame(mode)]
                     /\ g_result' = NoResult
                     /\ g_pc' = "g_wait"
       ELSE /\ g_result' = Return("client")
            /\ g_pc' = "g_done"
            /\ UNCHANGED inits
    /\ UNCHANGED <<client_conn, conn_tested, notClient>>

\* initialize_client(): get_supabase_client(), with its lazy initialization
\* when the client has no connection, then await client.initialize(), which
\* runs on the global client whether or not it has a connection.  The caller
\* runs inside the event loop.
call_initialize_client ==
    /\ g_pc \in {"idle", "g_done"}
    /\ Resumed = {}
    /\ g_calls < MaxCalls
    /\ supabase_client' = "client"
    /\ IF client_conn = "None"
       THEN \E mode \in {LoopInitMode(nest_asyncio)} :
              CASE mode = "import_error" ->
                     /\ g_calls' = g_calls + 1
                     /\ g_result' = Raise(Err("ImportError", "nest_asyncio"))
                     /\ g_pc' = "g_done"
                     /\ UNCHANGED inits
                [] mode = "create_task" ->
                     /\ g_calls + 2 <= MaxCalls
                     /\ g_calls' = g_calls + 2
                     /\ inits' = [inits EXCEPT ![g_calls + 1] = NewFrame(mode),
                                               ![g_calls + 2] = NewFrame("await")]
                     /\ g_result' = NoResult
                     /\ g_pc' = "g_wait"
                [] OTHER ->
                     /\ g_calls' = g_calls + 1
                     /\ inits' = [inits EXCEPT ![g_calls + 1] = NewFrame("run_then_await")]
                     /\ g_result' = NoResult
                     /\ g_pc' = "g_wait"
       ELSE /\ g_calls' = g_calls + 1
            /\ inits' = [inits EXCEPT ![g_calls + 1] = NewFrame("await")]
            /\ g_result' = NoResult
            /\ g_pc' = "g_wait"
    /\ UNCHANGED <<client_conn, conn_tested, notClient>>

\* How one attempt of initialize can go: create_client raises, the
\* connection test raises, or both work.
InitOutcomes == {"create_raises", "test_raises", "ok"}

\* One iteration of the loop of initialize(): self.client =
\* create_client(...), the connection test, and the return or the except
\* clause.  Nothing in it yields to the event loop before the sleep.
initialize_attempt ==
    /\ Ready # {}
    /\ \E n \in {NextReady}, o \in InitOutcomes :
         /\ client_conn' = IF o = "create_raises" THEN client_conn ELSE "created"
         /\ conn_tested' = IF o = "create_raises" THEN conn_tested ELSE (o = "ok")
         /\ LET next == IF o = "ok" THEN "i_returned"
                         ELSE IF inits[n].attempt < db_max_retries - 1
                              THEN IF delay_index(inits[n].attempt) \in DOMAIN db_retry_delays
                                   THEN "i_sleep" ELSE "i_raised"
                              ELSE "i_raised"
            IN  inits' = [inits EXCEPT ![n].pc = next]
    /\ UNCHANGED <<supabase_client, g_pc, g_calls, g_result, notClient>>

\* await asyncio.sleep(self.retry_delays[attempt]) of an initialize() has
\* elapsed.
initialize_sleep_elapsed ==
    /\ \E n \in DOMAIN inits :
         /\ inits[n].pc = "i_sleep"
         /\ TimerFires(n)
         /\ inits' = [inits EXCEPT ![n].pc = "i_attempt", ![n].attempt = inits[n].attempt + 1]
    /\ UNCHANGED <<supabase_client, client_conn, conn_tested, g_pc, g_calls, g_result, notClient>>

\* The exception with which initialize() gives up.
InitializeError == Err("Exception", "Failed to initialize Supabase client")

\* asyncio.run has finished the initialize() of the running
\* get_supabase_client call: its exception leaves get_supabase_client,
\* otherwise the client is returned.
get_supabase_client_returns ==
    /\ g_pc = "g_wait"
    /\ inits[g_calls].mode = "run"
    /\ inits[g_calls].pc \in {"i_returned", "i_raised"}
    /\ g_result' = IF inits[g_calls].pc = "i_returned" THEN Return("client")
                   ELSE Raise(InitializeError)
    /\ g_pc' = "g_done"
    /\ UNCHANGED <<supabase_client, client_conn, conn_tested, g_calls, inits, notClient>>

\* The lazy initialization inside initialize_client() has succeeded: its
\* get_supabase_client call returns and await client.initialize() starts
\* initialize() once more.
initialize_client_awaits ==
    /\ g_pc = "g_wait"
    /\ inits[g_calls].mode = "run_then_await"
    /\ inits[g_calls].pc = "i_returned"
    /\ inits' = [inits EXCEPT ![g_calls] = NewFrame("await")]
    /\ UNCHANGED <<supabase_client, client_conn, conn_tested, g_pc, g_calls, g_result,
                   notClient>>

\* initialize_client() ends: with the exception of its lazy initialization
\* or of the initialize() it awaited, or with None.
initialize_client_returns ==
    /\ g_pc = "g_wait"
    /\ \/ inits[g_calls].mode = "run_then_await" /\ inits[g_calls].pc = "i_raised"
       \/ inits[g_calls].mode = "await" /\ inits[g_calls].pc \in {"i_returned", "i_raised"}
    /\ g_result' = IF inits[g_calls].pc = "i_returned" THEN ReturnNone
                   ELSE Raise(InitializeError)
    /\ g_pc' = "g_done"
    /\ UNCHANGED <<supabase_client, client_conn, conn_tested, g_calls, inits, notClient>>

\* The calls of upload_media_with_retry and process_and_upload_media.
Next ==
    \/ call_upload_media_with_retry
    \/ for_attempt
    \/ _upload_media
    \/ upload_get_client
    \/ upload_client_ready
    \/ initialize_attempt
    \/ initialize_sleep_elapsed
    \/ sleep_elapsed
    \/ call_process_and_upload_media
    \/ checkpoint_start
    \/ determine_media_type
    \/ transcode_image
    \/ transcode_video
    \/ checkpoint_upload
    \/ after_upload

Spec == Init /\ [][Next]_vars

\* The same with the batch entry point.
BatchNext ==
    \/ Next
    \/ call_batch_process_media
    \/ for_media_upload
    \/ begin_item
    \/ end_item
    \/ finish_batch

BatchSpec == Init /\ [][BatchNext]_vars

\* ------------------------------------------------------------ MediaUpload
\* A caller constructs a MediaUpload.
construct ==
    /\ \E a \in ConstructorArgs :
         /\ ctor_args' = a
         /\ ctor_result' = MediaUpload(a)
    /\ UNCHANGED notCtor

CtorNext ==
    \/ construct

\* The constructor calls of a process.
ModelSpec == LibInit /\ [][CtorNext]_vars

\* ------------------------------------------ compress_video, step by step
\* The videos compress_video is called with.
VideoInputs == { m \in MediaUploads : classify(m.filename) = "video" }

video_max_width == 1280
video_max_height == 720

\* video.size of the explored videos.
VideoSizes ==
    { <<640, 480>>, <<1280, 720>>, <<1920, 1080>>, <<3000, 1>>, <<1, 3000>>,
      <<1281, 721>>, <<4000, 3000>>, <<900, 500>>, <<39, 1080>>, <<369, 720>> }

\* The products t * (w / h) over the explored sizes whose floating-point
\* value lies just below the integer t * w / h, so that int() gives one less.
TruncatedShort == { <<720, 39, 1080>>, <<720, 369, 720>>, <<480, 369, 720>> }

\* int(t * aspect_ratio) with aspect_ratio = w / h
int_times_ratio(t, w, h) ==
    IF <<t, w, h>> \in TruncatedShort THEN ((t * w) \div h) - 1 ELSE (t * w) \div h

\* int(t / aspect_ratio) with aspect_ratio = w / h
int_over_ratio(t, w, h) == (t * h) \div w

\* The dimension kept as it is.
make_even_keeps_odd(n) == n

\* n if n % 2 == 0 else n - 1
make_even(n) == IF n % 2 = 0 THEN n ELSE n - 1

\* Calculate compression settings: target_width and target_height of the
\* first pass.
first_pass_size(width, height) ==
    LET target_width  == Min(width, video_max_width)
        target_height == Min(height, video_max_height)
        \* target_width / target_height > aspect_ratio
        wider == target_width * height > width * target_height
    IN  <<make_even(IF wider THEN int_times_ratio(target_height, width, height)
                    ELSE target_width),
          make_even(IF wider THEN target_height
                    ELSE int_over_ratio(target_width, width, height))>>

\* Reduce to 480p: target_width and target_height of the second pass.
second_pass_size(width, height) ==
    <<make_even(Min(854, int_times_ratio(480, width, height))),
      make_even(Min(480, int_over_ratio(854, width, height)))>>

\* One video.resize((target_width, target_height)) call as recorded.
ResizeCall(pass, size) == [pass |-> pass, width |-> size[1], height |-> size[2]]

\* A caller invokes compress_video(video_data, filename).  Without the
\* backend the call returns at once.
call_compress_video ==
    /\ v_pc = "idle"
    /\ \E m \in VideoInputs, env \in VideoEnvs, size \in VideoSizes :
         v_data' = m.data /\ v_filename' = m.filename /\ v_env' = env /\ v_size' = size
    /\ v_pc' = IF MOVIEPY_AVAILABLE THEN "v_write" ELSE "v_return"
    /\ UNCHANGED <<temp_files, v_result, v_resizes, notVideo>>

\* NamedTemporaryFile(delete=False) creates the input copy and
\* input_file.write fills it; output_path = tempfile.mktemp(...) only makes
\* up a name.  An exception of the write leaves through the outer except,
\* the inner try with its finally not yet entered.
write_input_copy ==
    /\ v_pc = "v_write"
    /\ temp_files' = temp_files \cup {"input"}
    /\ v_pc' = IF v_env.fails = "write_input" THEN "v_return" ELSE "v_pass1"
    /\ UNCHANGED <<v_data, v_filename, v_env, v_result, v_size, v_resizes, notVideo>>

\* VideoFileClip(input_path), the resize of a video that exceeds the
\* bounding box, and the first write_videofile, which writes
\* the output file and, on its way, the temporary audio file it removes
\* itself when it completes; when it fails, part of the output and the
\* temporary audio file may be left.
first_pass ==
    /\ v_pc = "v_pass1"
    /\ v_resizes' =
         IF /\ v_env.fails # "decode"
            /\ (v_size[1] > video_max_width \/ v_size[2] > video_max_height)
         THEN Append(v_resizes, ResizeCall(1, first_pass_size(v_size[1], v_size[2])))
         ELSE v_resizes
    /\ CASE v_env.fails = "decode" ->
              /\ v_pc' = "v_cleanup" /\ UNCHANGED temp_files
         [] v_env.fails = "encode1" ->
              /\ v_pc' = "v_cleanup"
              /\ \E left \in SUBSET {"output", "audio"} : temp_files' = temp_files \cup left
         [] OTHER ->
              /\ temp_files' = temp_files \cup {"output"}
              /\ v_pc' = IF v_env.len1 > max_compressed_video_size THEN "v_pass2" ELSE "v_cleanup"
    /\ UNCHANGED <<v_data, v_filename, v_env, v_result, v_size, notVideo>>

\* The more aggressive pass over the same output path, with a temporary
\* audio file of its own: the original is decoded again and resized when it
\* exceeds 854x480.
second_pass ==
    /\ v_pc = "v_pass2"
    /\ v_resizes' =
         IF v_env.fails # "decode2" /\ (v_size[1] > 854 \/ v_size[2] > 480)
         THEN Append(v_resizes, ResizeCall(2, second_pass_size(v_size[1], v_size[2])))
         ELSE v_resizes
    /\ IF v_env.fails = "encode2"
       THEN \E left \in SUBSET {"audio2"} : temp_files' = temp_files \cup left
       ELSE UNCHANGED temp_files
    /\ v_pc' = "v_cleanup"
    /\ UNCHANGED <<v_data, v_filename, v_env, v_result, v_size, notVideo>>

\* The finally clause: os.unlink(input_path), then os.unlink(output_path),
\* both in one try whose except passes, so the second is skipped when the
\* first raises; unlinking a file that does not exist raises as well.
cleanup ==
    /\ v_pc = "v_cleanup"
    /\ \E unlink_input_raises \in BOOLEAN, unlink_output_raises \in BOOLEAN :
         temp_files' = IF unlink_input_raises THEN temp_files
                       ELSE IF unlink_output_raises THEN temp_files \ {"input"}
                       ELSE temp_files \ {"input", "output"}
    /\ v_pc' = "v_return"
    /\ UNCHANGED <<v_data, v_filename, v_env, v_result, v_size, v_resizes, notVideo>>

\* The call returns its pair or re-raises.
compress_video_returns ==
    /\ v_pc = "v_return"
    /\ v_result' = compress_video(v_data, v_filename, MOVIEPY_AVAILABLE, v_env)
    /\ v_pc' = "v_done"
    /\ UNCHANGED <<v_data, v_filename, v_env, temp_files, v_size, v_resizes, notVideo>>

VideoNext ==
    \/ call_compress_video
    \/ write_input_copy
    \/ first_pass
    \/ second_pass
    \/ cleanup
    \/ compress_video_returns

\* One compress_video call, with or without the video backend.
VideoInit ==
    /\ max_retries = default_max_retries /\ MOVIEPY_AVAILABLE \in BOOLEAN
    /\ nest_asyncio = "real"
    /\ DefaultClient
    /\ PipelineIdle /\ OtherIdle

VideoSpec == VideoInit /\ [][VideoNext]_vars

\* ------------------------------------ SupabaseClient._execute_with_retry
\* A caller invokes _execute_with_retry(operation).
call_execute_with_retry ==
    /\ r_pc = "idle"
    /\ r_pc' = "r_loop"
    /\ UNCHANGED <<db_max_retries, r_attempt, r_trace, r_result, notRetry>>

\* for attempt in range(self.max_retries); falling off the end returns None.
r_for_attempt ==
    /\ r_pc = "r_loop"
    /\ IF r_attempt < db_max_retries
       THEN r_pc' = "r_attempt" /\ UNCHANGED r_result
       ELSE r_pc' = "r_done" /\ r_result' = ReturnNone
    /\ UNCHANGED <<db_max_retries, r_attempt, r_trace, notRetry>>

\* How one await operation(*args, **kwargs) can go.
OperationOutcomes == {"ok", "APIError", "Exception"}

\* What either except clause does with error e of the attempt with 0-based
\* index a: sleep, fail on the delay lookup, or re-raise e.
r_after_failure(a, e) ==
    IF a < db_max_retries - 1
    THEN IF delay_index(a) \in DOMAIN db_retry_delays
         THEN [next |-> "r_sleep", result |-> NoResult]
         ELSE [next |-> "r_done", result |-> Raise(Err("IndexError", "retry_delays"))]
    ELSE [next |-> "r_done", result |-> Raise(e)]

\* One iteration of the try body: the operation, then the return or an
\* except clause.
r_operation ==
    /\ r_pc = "r_attempt"
    /\ \E o \in OperationOutcomes :
         LET n == r_attempt + 1
             cont == r_after_failure(r_attempt, Err(o, n))
         IN  /\ r_trace' = Append(r_trace, [ev |-> "attempt", n |-> n, ok |-> o = "ok",
                                            outcome |-> o])
             /\ IF o = "ok"
                THEN r_result' = Return(n) /\ r_pc' = "r_done"
                ELSE r_result' = cont.result /\ r_pc' = cont.next
    /\ UNCHANGED <<db_max_retries, r_attempt, notRetry>>

\* await asyncio.sleep(self.retry_delays[attempt]) has elapsed.
r_sleep_elapsed ==
    /\ r_pc = "r_sleep"
    /\ r_trace' = Append(r_trace, [ev |-> "sleep", n |-> db_retry_delays[delay_index(r_attempt)],
                                   ok |-> TRUE, outcome |-> "slept"])
    /\ r_attempt' = r_attempt + 1
    /\ r_pc' = "r_loop"
    /\ UNCHANGED <<db_max_retries, r_result, notRetry>>

RetryNext ==
    \/ call_execute_with_retry
    \/ r_for_attempt
    \/ r_operation
    \/ r_sleep_elapsed

\* One _execute_with_retry call of a client built with some max_retries.
RetryInit ==
    /\ max_retries = default_max_retries /\ MOVIEPY_AVAILABLE = TRUE
    /\ nest_asyncio = "real"
    /\ db_max_retries \in DbMaxRetriesChoices
    /\ PipelineIdle /\ OtherIdle

RetrySpec == RetryInit /\ [][RetryNext]_vars

\* ------------------------------------------------------------ CacheUtils
\* pattern in key, for the explored patterns and keys.
Contains(pattern, key) ==
    \/ pattern = "s"
    \/ pattern = "notes" /\ key = "notes_1"

\* An entry is taken for expired one tick early: at the age of its TTL.
expired_at_ttl(e, t) == t - e.timestamp >= e.ttl

\* datetime.utcnow() - entry["timestamp"] > timedelta(seconds=entry["ttl"])
expired(e, t) == t - e.timestamp > e.ttl

\* CacheUtils.cache_data(key, data, ttl)
cache_data ==
    /\ \E key \in CacheKeys, data \in CacheValues, ttl \in CacheTTLs :
         LET cache_entry == [data |-> data, timestamp |-> now, ttl |-> ttl]
         IN  /\ session_cache' = [session_cache EXCEPT ![key] = cache_entry]
             /\ stored' = [stored EXCEPT ![key] = cache_entry]
             /\ cache_op' = [op |-> "cache_data", key |-> key, result |-> "None"]
    /\ cache_present' = TRUE
    /\ UNCHANGED <<now, notCache>>

\* CacheUtils.get_cached_data(key)
get_cached_data ==
    /\ \E key \in CacheKeys :
         IF ~cache_present \/ session_cache[key] = NoEntry
         THEN /\ cache_op' = [op |-> "get_cached_data", key |-> key, result |-> "None"]
              /\ UNCHANGED session_cache
         ELSE IF expired(session_cache[key], now)
         THEN /\ session_cache' = [session_cache EXCEPT ![key] = NoEntry]
              /\ cache_op' = [op |-> "get_cached_data", key |-> key, result |-> "None"]
         ELSE /\ cache_op' = [op |-> "get_cached_data", key |-> key,
                               result |-> session_cache[key].data]
              /\ UNCHANGED session_cache
    /\ UNCHANGED <<cache_present, now, stored, notCache>>

\* CacheUtils.clear_cache(pattern)
clear_cache ==
    /\ \E pattern \in CachePatterns :
         LET cleared(c) ==
               IF pattern = "None" THEN [k \in CacheKeys |-> NoEntry]
               ELSE [k \in CacheKeys |-> IF Contains(pattern, k) THEN NoEntry ELSE c[k]]
         IN  /\ session_cache' = IF cache_present THEN cleared(session_cache) ELSE session_cache
             /\ stored' = cleared(stored)
             /\ cache_op' = [op |-> "clear_cache", key |-> pattern, result |-> "None"]
    /\ UNCHANGED <<cache_present, now, notCache>>

\* A second passes.
tick ==
    /\ now < MaxTime
    /\ now' = now + 1
    /\ cache_op' = NoCall
    /\ UNCHANGED <<cache_present, session_cache, stored, notCache>>

CacheNext ==
    \/ cache_data
    \/ get_cached_data
    \/ clear_cache
    \/ tick

\* The cache calls of one session.
CacheSpec == LibInit /\ [][CacheNext]_vars

\* ------------------------------------------------ AsyncUtils.batch_process
\* The items, the batch sizes (10 is the default) and the function the
\* helper is called with.
ItemValues == {1, 2}
BatchSizes == {1, 2, 10}
process_func(item) == item * 2

\* A caller invokes batch_process(items, batch_size, process_func).
call_batch_process ==
    /\ a_pc = "idle"
    /\ \E items \in ListsUpTo(ItemValues, MaxItems), batch_size \in BatchSizes :
         a_items' = items /\ a_batch_size' = batch_size
    /\ a_pc' = "a_loop"
    /\ UNCHANGED <<a_i, a_results, a_pending, a_completed, a_result, notAsync>>


\* The positions of items[i:i + batch_size], counted from 1.
batch_of(k) == (k + 1) .. Min(k + a_batch_size, Len(a_items))

\* for i in range(0, len(items), batch_size): the coroutines of the batch
\* are created and handed to asyncio.gather, which runs them concurrently;
\* after the last batch the results are returned.
a_for_batch ==
    /\ a_pc = "a_loop"
    /\ IF a_i < Len(a_items)
       THEN /\ a_pending' = batch_of(a_i)
            /\ a_pc' = "a_gather"
            /\ UNCHANGED a_result
       ELSE /\ a_result' = Return(a_results)
            /\ a_pc' = "a_done"
            /\ UNCHANGED a_pending
    /\ UNCHANGED <<a_items, a_batch_size, a_i, a_results, a_completed, notAsync>>

\* One of the running coroutines completes, with a value or an exception;
\* the tasks of a gather that has raised run on.
complete_item ==
    /\ \E pos \in a_pending, ok \in BOOLEAN :
         /\ a_pending' = a_pending \ {pos}
         /\ a_completed' = Append(a_completed, [pos |-> pos, ok |-> ok])
    /\ UNCHANGED <<a_items, a_batch_size, a_pc, a_i, a_results, a_result, notAsync>>

\* The results in the order in which the coroutines completed.
gather_in_completion_order(first, last, completed) ==
    [k \in 1 .. (last - first + 1) |->
        process_func(a_items[completed[Len(completed) - (last - first + 1) + k].pos])]

\* asyncio.gather(*aws): the results in the order of the awaitables.
gather(first, last, completed) ==
    [k \in 1 .. (last - first + 1) |-> process_func(a_items[first + k - 1])]

\* The completions of the running batch.
batch_completions ==
    { k \in DOMAIN a_completed : a_completed[k].pos \in batch_of(a_i) /\ k > a_i }

\* Every coroutine of the batch has returned: results.extend(batch_results),
\* then the pause between batches when another batch follows.
gather_returns ==
    /\ a_pc = "a_gather"
    /\ a_pending = {}
    /\ \A k \in batch_completions : a_completed[k].ok
    /\ a_results' = a_results \o gather(a_i + 1, Min(a_i + a_batch_size, Len(a_items)), a_completed)
    /\ IF a_i + a_batch_size < Len(a_items)
       THEN a_pc' = "a_sleep" /\ UNCHANGED a_i
       ELSE a_pc' = "a_loop" /\ a_i' = a_i + a_batch_size
    /\ UNCHANGED <<a_items, a_batch_size, a_pending, a_completed, a_result, notAsync>>

\* A coroutine of the batch has raised: gather raises its exception, and the
\* except clause of batch_process logs and re-raises.
gather_raises ==
    /\ a_pc = "a_gather"
    /\ \E k \in batch_completions :
         /\ ~a_completed[k].ok
         /\ \A j \in batch_completions : j < k => a_completed[j].ok
         /\ a_result' = Raise(Err("ItemError", a_completed[k].pos))
    /\ a_pc' = "a_done"
    /\ UNCHANGED <<a_items, a_batch_size, a_i, a_results, a_pending, a_completed, notAsync>>

\* await asyncio.sleep(0.1) has elapsed; the loop moves to the next batch.
a_sleep_elapsed ==
    /\ a_pc = "a_sleep"
    /\ a_i' = a_i + a_batch_size
    /\ a_pc' = "a_loop"
    /\ UNCHANGED <<a_items, a_batch_size, a_results, a_pending, a_completed, a_result, notAsync>>

AsyncNext ==
    \/ call_batch_process
    \/ a_for_batch
    \/ complete_item
    \/ gather_returns
    \/ gather_raises
    \/ a_sleep_elapsed

\* One AsyncUtils.batch_process call.
AsyncSpec == LibInit /\ [][AsyncNext]_vars

\* ------------------------------------------------- the client on its own
ClientNext ==
    \/ call_get_supabase_client
    \/ call_initialize_client
    \/ initialize_attempt
    \/ initialize_sleep_elapsed
    \/ get_supabase_client_returns
    \/ initialize_client_awaits
    \/ initialize_client_returns

\* A process before its first get_supabase_client call.
ClientInit ==
    /\ max_retries = default_max_retries /\ MOVIEPY_AVAILABLE = TRUE
    /\ nest_asyncio \in NestAsyncio
    /\ DefaultClient
    /\ PipelineIdle /\ OtherIdle

\* The get_supabase_client and initialize_client calls of a process.
ClientSpec == ClientInit /\ [][ClientNext]_vars

\* ------------------------------------------- compress_image, step by step
image_max_width == 1920
image_max_height == 1080

\* exif.get(orientation) of a file that has no such entry, or no EXIF data,
\* or whose image class has no _getexif.
NoOrientation == 0
\* image._getexif() raises.
ExifUnreadable == -1
Orientations == {NoOrientation, ExifUnreadable, 1, 3, 6}

SourceFormats == {"JPEG", "PNG", "GIF", "HEIF"}
SourceModes == {"RGB", "RGBA", "LA", "P", "L"}

\* The modes in which the imaging library opens a file of each format.
ModesOf(format) ==
    CASE format = "JPEG" -> {"RGB", "L"}
      [] format = "PNG"  -> {"RGB", "RGBA", "LA", "P"}
      [] format = "GIF"  -> {"P"}
      [] format = "HEIF" -> {"RGB", "RGBA"}

\* The image classes that have _getexif.
HasGetExif(format) == format \in {"JPEG", "PNG"}

\* Stored width and height of the explored files.
ImageSizes ==
    { <<800, 600>>, <<1920, 1080>>, <<3000, 2000>>, <<1000, 2000>>, <<1921, 1>>,
      <<1920, 1081>> }

\* What the explored files hold.
ImageSources ==
    { [decodable |-> TRUE, format |-> x.format, mode |-> x.mode,
       orientation |-> x.orientation, width |-> x.size[1], height |-> x.size[2]] :
        x \in { y \in [format : SourceFormats, mode : SourceModes,
                       orientation : Orientations, size : ImageSizes] :
                  /\ y.mode \in ModesOf(y.format)
                  /\ (~HasGetExif(y.format) => y.orientation = NoOrientation) } }

\* The filenames and payloads compress_image is called with.
ImageNames == { <<"photo", "jpg">>, <<"huge", "png">>, <<"shot", "HEIC">> }
ImagePayloads == { Raw("img", 2 * MiB), Raw("img", 2 * MiB + 1) }

\* The lengths the first and the second save can produce.
FirstSaveLengths == {10 * MiB, 10 * MiB + 1}
SecondSaveLengths == {2 * MiB, 12 * MiB}

\* A caller invokes compress_image(image_data, filename).
call_compress_image ==
    /\ ci_pc = "idle"
    /\ \E d \in ImagePayloads, f \in ImageNames, src \in ImageSources \cup {NoSource} :
         ci_data' = d /\ ci_filename' = f /\ ci_src' = src
    /\ ci_pc' = "ci_open"
    /\ UNCHANGED <<image, saves, ci_new_filename, ci_result, notImage>>

\* image = Image.open(io.BytesIO(image_data))
open_image ==
    /\ ci_pc = "ci_open"
    /\ IF ci_src.decodable
       THEN /\ image' = [format |-> ci_src.format, mode |-> ci_src.mode,
                         width |-> ci_src.width, height |-> ci_src.height]
            /\ ci_pc' = "ci_exif"
            /\ UNCHANGED ci_result
       ELSE /\ ci_result' = Raised("cannot identify image file")
            /\ ci_pc' = "ci_done"
            /\ UNCHANGED image
    /\ UNCHANGED <<ci_data, ci_filename, ci_src, saves, ci_new_filename, notImage>>

\* ImageOps.exif_transpose(image): a new image object, which carries no
\* format, with width and height exchanged for the orientations 5 to 8.
exif_transpose(im, orientation) ==
    [format |-> "None", mode |-> im.mode,
     width  |-> IF orientation \in 5 .. 8 THEN im.height ELSE im.width,
     height |-> IF orientation \in 5 .. 8 THEN im.width ELSE im.height]

\* Auto-rotate: exif_transpose when the file has a non-zero orientation entry;
\* an exception while reading EXIF is logged and the image is kept.
auto_rotate ==
    /\ ci_pc = "ci_exif"
    /\ image' = IF ci_src.orientation \in {NoOrientation, ExifUnreadable}
                THEN image
                ELSE exif_transpose(image, ci_src.orientation)
    /\ ci_pc' = "ci_mode"
    /\ UNCHANGED <<ci_data, ci_filename, ci_src, saves, ci_new_filename, ci_result, notImage>>

\* Convert to RGB if necessary: a white RGB background with the image pasted
\* on it for RGBA, LA and P, image.convert('RGB') for every other mode but
\* RGB; both are new image objects, which carry no format.
to_rgb(im) ==
    IF im.mode = "RGB" THEN im
    ELSE [im EXCEPT !.mode = "RGB", !.format = "None"]

convert_to_rgb ==
    /\ ci_pc = "ci_mode"
    /\ image' = to_rgb(image)
    /\ ci_pc' = "ci_resize"
    /\ UNCHANGED <<ci_data, ci_filename, ci_src, saves, ci_new_filename, ci_result, notImage>>

Abs(n) == IF n < 0 THEN 0 - n ELSE n
Floor(a, b) == a \div b
Ceil(a, b) == IF a % b = 0 THEN a \div b ELSE (a \div b) + 1

\* thumbnail that stretches the image to the whole box.
thumbnail_fills_box(w, h, x, y) ==
    IF x >= w /\ y >= h THEN <<w, h>> ELSE <<x, y>>

\* Image.thumbnail((x, y)) on an image of w by h: the size unchanged when the
\* image fits, otherwise the box with one side replaced by the other side
\* times the aspect ratio, rounded down or up to whichever is closer to the
\* aspect ratio (down on a tie), and at least 1.
thumbnail(w, h, x, y) ==
    IF x >= w /\ y >= h THEN <<w, h>>
    ELSE IF x * h >= w * y
         THEN LET lo == Floor(y * w, h)
                  hi == Ceil(y * w, h)
                  n  == IF Abs(w * y - lo * h) <= Abs(w * y - hi * h) THEN lo ELSE hi
              IN  <<Max(n, 1), y>>
         ELSE LET lo == Floor(x * h, w)
                  hi == Ceil(x * h, w)
                  n  == IF lo = 0 THEN 0
                        ELSE IF Abs(w * lo - x * h) * hi <= Abs(w * hi - x * h) * lo
                             THEN lo ELSE hi
              IN  <<x, Max(n, 1)>>

\* Resize if needed.
resize_if_needed ==
    /\ ci_pc = "ci_resize"
    /\ image' = IF image.width > image_max_width \/ image.height > image_max_height
                THEN LET size == thumbnail(image.width, image.height,
                                           image_max_width, image_max_height)
                     IN  [image EXCEPT !.width = size[1], !.height = size[2]]
                ELSE image
    /\ ci_pc' = "ci_save"
    /\ UNCHANGED <<ci_data, ci_filename, ci_src, saves, ci_new_filename, ci_result, notImage>>

\* The format, quality (0 for none) and filename the first save is made
\* with, decided from image.format at that time, the filename and the length
\* of the input.
first_pass_choice(original_format, file_name, image_data) ==
    IF \/ original_format \in {"HEIC", "HEIF"}
       \/ EndsWithExt(file_name, "heic")
       \/ EndsWithExt(file_name, "heif")
    THEN [format |-> "JPEG", quality |-> image_quality,
          filename |-> with_suffix(file_name, "jpg")]
    ELSE IF original_format = "PNG" /\ image_data.len > 2 * MiB
    THEN [format |-> "JPEG", quality |-> image_quality,
          filename |-> with_suffix(file_name, "jpg")]
    ELSE [format |-> original_format,
          quality |-> IF original_format = "JPEG" THEN image_quality ELSE 0,
          filename |-> file_name]

\* One image.save(output, format=..., ...) call as recorded in saves.
SaveCall(format, quality, n, ok) ==
    [format |-> format, quality |-> quality, len |-> n, ok |-> ok,
     width |-> image.width, height |-> image.height]

\* The second pass made when the first result is at least the ceiling.
needs_second_pass_at_ceiling(n) == n >= max_compressed_image_size

\* Check if compression was effective.
needs_second_pass(n) == n > max_compressed_image_size

\* Compress and save: the first image.save.  Saving with format=None to a
\* buffer raises; any save can raise.
first_save ==
    /\ ci_pc = "ci_save"
    /\ LET c == first_pass_choice(image.format, ci_filename, ci_data)
       IN  \E ok \in BOOLEAN, n \in FirstSaveLengths :
             LET saved == ok /\ c.format # "None"
             IN  /\ saves' = Append(saves, SaveCall(c.format, c.quality, n, saved))
                 /\ IF saved
                    THEN /\ ci_new_filename' = c.filename
                         /\ ci_pc' = IF needs_second_pass(n) THEN "ci_second" ELSE "ci_return"
                         /\ UNCHANGED ci_result
                    ELSE /\ ci_result' = Raised("image save failed")
                         /\ ci_pc' = "ci_done"
                         /\ UNCHANGED ci_new_filename
    /\ UNCHANGED <<ci_data, ci_filename, ci_src, image, notImage>>

\* quality = max(50, self.image_quality - 20)
second_pass_quality == Max(50, image_quality - 20)

\* Try more aggressive compression: the second image.save, as JPEG.
second_save ==
    /\ ci_pc = "ci_second"
    /\ \E ok \in BOOLEAN, n \in SecondSaveLengths :
         /\ saves' = Append(saves, SaveCall("JPEG", second_pass_quality, n, ok))
         /\ IF ok
            THEN /\ ci_new_filename' = with_suffix(ci_filename, "jpg")
                 /\ ci_pc' = "ci_return"
                 /\ UNCHANGED ci_result
            ELSE /\ ci_result' = Raised("image save failed")
                 /\ ci_pc' = "ci_done"
                 /\ UNCHANGED ci_new_filename
    /\ UNCHANGED <<ci_data, ci_filename, ci_src, image, notImage>>

\* return compressed_data, new_filename: the output of the last save.
compress_image_returns ==
    /\ ci_pc = "ci_return"
    /\ LET last == saves[Len(saves)]
       IN  ci_result' = Returned([id |-> ci_data.id,
                                  enc |-> [format |-> last.format, quality |-> last.quality],
                                  len |-> last.len],
                                 ci_new_filename)
    /\ ci_pc' = "ci_done"
    /\ UNCHANGED <<ci_data, ci_filename, ci_src, image, saves, ci_new_filename, notImage>>

ImageNext ==
    \/ call_compress_image
    \/ open_image
    \/ auto_rotate
    \/ convert_to_rgb
    \/ resize_if_needed
    \/ first_save
    \/ second_save
    \/ compress_image_returns

\* One compress_image call.
ImageSpec == LibInit /\ [][ImageNext]_vars

\* ================================================================ claims
\* The attempts recorded in a trace.
Attempts(tr) == { k \in DOMAIN tr : tr[k].ev = "attempt" }
AttemptCount(tr) == Cardinality(Attempts(tr))

\* C1: with the default max_retries = 5, an upload_media_with_retry call in
\* which every _upload_media call fails makes exactly 5 attempts, never a
\* 6th, and raises the terminal failure that names the attempt count 5 and
\* the error of the last attempt.
C1_Exhaustion ==
    max_retries = default_max_retries =>
      /\ AttemptCount(trace) <= 5
      /\ (pc = "u_done" /\ up_result.kind # "return" =>
            /\ AttemptCount(trace) = 5
            /\ up_result.kind = "raise"
            /\ up_result.error.type = "Failed to upload"
            /\ up_result.error.attempts = 5
            /\ up_result.error.last = AttemptError(last_attempt.outcome)
            /\ ~trace[Len(trace)].ok)

\* Five failed attempts of a default service have ended in the terminal failure.
C1_Witness ==
    /\ max_retries = default_max_retries
    /\ pc = "u_done" /\ up_result.kind = "raise"
    /\ AttemptCount(trace) = 5
    /\ last_attempt.outcome = "put_error"

\* The trace of one upload_media_with_retry call alternates attempts and
\* sleeps: position 2n-1 is attempt n, position 2n the sleep after it.
TraceAlternates ==
    \A k \in DOMAIN trace :
      IF k % 2 = 1
      THEN /\ trace[k].ev = "attempt" /\ trace[k].n = (k + 1) \div 2
           /\ (trace[k].ok => k = Len(trace))
      ELSE /\ trace[k].ev = "sleep" /\ ~trace[k - 1].ok
           /\ trace[k].n = retry_delays[k \div 2]

\* C2: with default settings, k failed attempts (0 <= k <= 4) followed by a
\* successful one are exactly k+1 attempts made one after another, the sleep
\* after the i-th failure lasts retry_delays[i] = 1, 2, 4, 8 seconds, a new
\* attempt starts only after that sleep, and the returned (URL, size) is the
\* result of the last attempt.
C2_RetrySequence ==
    max_retries = default_max_retries =>
      /\ TraceAlternates
      /\ (pc \in {"u_attempt", "u_client"} /\ trace # <<>> =>
            trace[Len(trace)].ev = "sleep")
      /\ (pc = "u_sleep" => trace[Len(trace)].ev = "attempt" /\ ~trace[Len(trace)].ok)
      /\ (pc = "u_done" /\ up_result.kind = "return" =>
            /\ Len(trace) = 2 * AttemptCount(trace) - 1
            /\ AttemptCount(trace) = attempt + 1
            /\ trace[Len(trace)].ok
            /\ last_attempt.outcome = "ok"
            /\ last_attempt.key = puts[Len(puts)].key
            /\ up_result.value.public_url = get_public_url(last_attempt.key)
            /\ up_result.value.size_mb = size_mb_of(file_data))

\* Four failures, sleeps of 1, 2, 4 and 8 seconds, then the success.
C2_Witness ==
    /\ max_retries = default_max_retries
    /\ pc = "u_done" /\ up_result.kind = "return"
    /\ AttemptCount(trace) = 5
    /\ trace[2].n = 1 /\ trace[4].n = 2 /\ trace[6].n = 4 /\ trace[8].n = 8

\* C3: every _upload_media call that reaches the storage writes under a key
\* no earlier attempt has used, of the same upload or of another one, so the
\* keys of one upload are pairwise distinct and the successful attempt never
\* reuses the key of a failed one.
C3_FreshKeys ==
    [][ /\ (puts' # puts /\ puts' # <<>> => puts'[Len(puts')].key \notin keys_put)
        /\ \A a, b \in DOMAIN puts' : a # b => puts'[a].key # puts'[b].key ]_vars

\* A retry succeeded after two failed attempts of the same upload that had
\* written under keys of their own.
C3_Witness ==
    /\ Len(puts) >= 3
    /\ last_attempt.outcome = "ok"
    /\ Cardinality(keys_put) >= 3

\* The stage of the running process_and_upload_media call.  The progress
\* calls belong to the stage they announce or conclude: 0 and 25 to Classify,
\* 75 and 100 to Upload.
Stage ==
    IF entry \notin {"process", "batch"} THEN "None"
    ELSE CASE pc \in {"p_start", "p_classify"} -> "Classify"
           [] pc = "p_transcode" -> "Transcode"
           [] pc \in {"p_cb75", "u_loop", "u_attempt", "u_client", "u_sleep", "u_done"} -> "Upload"
           [] pc = "p_done" -> IF proc_result.kind = "return" THEN "Done" ELSE "Failed"
           [] OTHER -> "None"

\* C4: a process_and_upload_media call of a default service moves Classify -> Transcode -> Upload
\* -> Done without going back or skipping; Failed is entered only from
\* Classify with an unsupported-type error, from Transcode of a video with a
\* transcoding error, or from Upload with the retry-exhaustion error; and no
\* attempt is made once the call has failed.
C4_StateMachine ==
    [][ max_retries = default_max_retries =>
        /\ Stage' # Stage =>
             \/ Stage = "None" /\ Stage' = "Classify"
             \/ Stage = "Classify" /\ Stage' = "Transcode"
             \/ Stage = "Transcode" /\ Stage' = "Upload"
             \/ Stage = "Upload" /\ Stage' = "Done"
             \/ /\ Stage = "Classify" /\ Stage' = "Failed"
                /\ proc_result'.error.type = "Unsupported file type"
             \/ /\ Stage = "Transcode" /\ Stage' = "Failed"
                /\ media_type = "video"
                /\ proc_result'.error.type = "VideoTranscodeError"
             \/ /\ Stage = "Upload" /\ Stage' = "Failed"
                /\ proc_result'.error.type = "Failed to upload"
             \/ Stage \in {"Done", "Failed"} /\ Stage' = "None"
        /\ Stage = "Failed" => keys_put' = keys_put /\ next_token' = next_token
      ]_vars

\* Everything the upload stage is given and sends is the original upload.
SendsOriginal ==
    /\ compressed_data = media_upload.data
    /\ new_filename = media_upload.filename
    /\ (pc \in {"u_loop", "u_attempt", "u_client", "u_sleep", "u_done"} =>
          file_data = media_upload.data /\ filename = media_upload.filename)
    /\ \A k \in DOMAIN puts :
          puts[k].data = media_upload.data /\ puts[k].key.filename = media_upload.filename

\* The result of the call is made in the upload stage: the pair the upload
\* returned, the error it raised, or an error of the stage's own steps.
DecidedByUpload ==
    pc = "p_done" =>
      IF proc_result.kind = "return"
      THEN /\ up_result.kind = "return"
           /\ proc_result.value = [public_url |-> up_result.value.public_url,
                                   size_mb |-> up_result.value.size_mb,
                                   new_filename |-> new_filename]
      ELSE \/ up_result.kind = "raise" /\ proc_result.error = up_result.error
           \/ up_result.kind = "return_none" /\ proc_result.error.type = "TypeError"
           \/ up_result.kind \in {"none", "return"} /\ proc_result.error = SinkError

\* C5: when compress_image raises for an image upload, the call does not
\* fail there: it goes on to the upload stage with the original payload and
\* the original filename, every attempt sends these, and the result of the
\* call is made in the upload stage.
C5_ImageFallback ==
    media_type = "image" /\ transcode_result.raised =>
      /\ Stage \in {"Upload", "Done", "Failed"}
      /\ SendsOriginal
      /\ DecidedByUpload

\* The fallback bytes of an image that could not be compressed were uploaded.
C5_Witness ==
    /\ media_type = "image" /\ transcode_result.raised
    /\ pc = "p_done" /\ proc_result.kind = "return"
    /\ Len(puts) >= 2
    /\ proc_result.value.new_filename = media_upload.filename

\* C6: when compress_video raises, the call fails with that error and makes
\* no upload attempt: nothing of the original video is sent.
C6_VideoFailureIsTerminal ==
    media_type = "video" /\ transcode_result.raised =>
      /\ pc = "p_done"
      /\ proc_result = Raise(Err("VideoTranscodeError", transcode_result.error))
      /\ up_result = NoResult
      /\ trace = <<>> /\ puts = <<>>
      /\ keys_put = {} /\ next_token = 1

\* A video whose second encoding pass failed has made the call fail.
C6_Witness ==
    /\ media_type = "video" /\ transcode_result.raised
    /\ transcode_result.error = "encode2"
    /\ pc = "p_done" /\ proc_result.kind = "raise"

\* C7: without the video backend compress_video returns the input bytes and
\* filename unchanged, without raising, and the pipeline goes on to upload
\* them; with the backend, a successful result is named with the extension
\* mp4 whatever the extension of the input.
C7_VideoBackend ==
    media_type = "video" /\ transcode_result # NoTranscode =>
      /\ (~MOVIEPY_AVAILABLE =>
            /\ transcode_result = Returned(media_upload.data, media_upload.filename)
            /\ Stage \in {"Upload", "Done", "Failed"}
            /\ SendsOriginal
            /\ DecidedByUpload)
      /\ (MOVIEPY_AVAILABLE /\ ~transcode_result.raised =>
            /\ Suffix(transcode_result.filename) = "mp4"
            /\ Len(transcode_result.filename) = Len(media_upload.filename)
            /\ new_filename = transcode_result.filename
            /\ compressed_data.enc.format = "mp4")

\* A .MOV passed through unchanged, for lack of a backend, has been uploaded.
C7_Witness ==
    /\ ~MOVIEPY_AVAILABLE
    /\ media_type = "video" /\ media_upload.filename = <<"clip", "MOV">>
    /\ pc = "p_done" /\ proc_result.kind = "return"
    /\ proc_result.value.new_filename = <<"clip", "MOV">>

\* What the image branch can hand to the upload stage, for every upload.
TranscodedImages ==
    [ m \in MediaUploads |->
        { IF r.raised THEN Returned(m.data, m.filename) ELSE r :
            r \in { compress_image(m.data, m.filename, env) : env \in ImageEnvs } } ]

\* What the video branch can deliver, with and without the backend.
TranscodedVideos ==
    [ backend \in BOOLEAN |->
        [ m \in MediaUploads |->
            { compress_video(m.data, m.filename, backend, env) : env \in VideoEnvs } ] ]

\* What the transcoding stage can hand to the upload stage for upload m.
Transcoded(m) ==
    IF classify(m.filename) = "image"
    THEN TranscodedImages[m]
    ELSE TranscodedVideos[MOVIEPY_AVAILABLE][m]

\* The errors with which upload_media_with_retry can end.
UploadErrors ==
    { [type |-> "Failed to upload", attempts |-> max_retries, last |-> AttemptError(o)] :
        o \in AttemptOutcomes \ {"ok"} }

\* Entry e is a report entry that upload m gets when it is processed on its
\* own by this service: decided by m, by what the libraries and the storage
\* do with m, and by nothing else.
IsAloneEntry(e, m) ==
    LET v == validate_media_file(m.filename, m.data.len)
        ts == Transcoded(m)
    IN  /\ e.filename = m.filename
        /\ IF e.success
           THEN /\ v.valid
                /\ \E t \in ts :
                     /\ ~t.raised
                     /\ e.new_filename = t.filename
                     /\ e.size_mb = size_mb_of(t.data)
                     /\ e.public_url.key.filename = t.filename
                     /\ e.public_url = get_public_url(e.public_url.key)
                     /\ e.public_url.key.timestamp \in Timestamps
           ELSE \/ batch_callback # "None" /\ e.error = SinkError
                \/ ~v.valid /\ e.error = v.message
                \/ /\ v.valid
                   /\ e.error.type = "VideoTranscodeError"
                   /\ \E t \in ts :
                        t.raised /\ e.error = Err("VideoTranscodeError", t.error)
                \/ /\ v.valid
                   /\ e.error \in UploadErrors
                   /\ \E t \in ts : ~t.raised

\* C8: in batch_process_media the failure of an item (unsupported extension,
\* oversize, video transcoding failure, upload retry exhaustion) neither
\* stops the loop nor touches another item: each entry appended is the one
\* the item gets on its own, the entries already in the report stay as they
\* are, an unclassifiable or oversize item is marked failed with the
\* validation message, and the loop ends only after every item has its entry.
C8_BatchIsolation ==
    [][ /\ (results' # results /\ results' # <<>> =>
              /\ Len(results') = Len(results) + 1
              /\ SubSeq(results', 1, Len(results)) = results
              /\ LET m == media_uploads[Len(results')]
                     e == results'[Len(results')]
                     v == validate_media_file(m.filename, m.data.len)
                 IN  /\ IsAloneEntry(e, m)
                     /\ (~v.valid /\ e.error # SinkError =>
                           ~e.success /\ e.error = v.message))
        /\ (pc' \in {"b_final", "b_done"} => Len(results') = Len(media_uploads'))
      ]_vars

\* A batch of three items has returned: the second item is unclassifiable
\* and is reported failed with the unsupported-type message, the first and
\* the third item are reported successful, and the report is the returned
\* list.
C8_Witness ==
    /\ pc = "b_done" /\ Len(media_uploads) = 3 /\ Len(results) = 3
    /\ batch_result.kind = "return" /\ batch_result.value = results
    /\ classify(media_uploads[2].filename) = "unsupported"
    /\ results[1].success
    /\ ~results[2].success
    /\ results[2].error.type = "Unsupported file type"
    /\ results[3].success

\* C9: batch_process_media never raises: whatever the uploads, the failures
\* of the items and the behaviour of the progress sink, the call returns a
\* report.
C9_NeverRaises ==
    pc = "b_done" => batch_result.kind = "return"

\* The positions inside the process_and_upload_media call of an item.
InItem == pc \in {"p_start", "p_classify", "p_transcode", "p_cb75", "u_loop",
                  "u_attempt", "u_client", "u_sleep", "u_done", "p_done"}

\* C10: the report has one entry per upload in input order, entry n carrying
\* the filename of upload n, also for the empty list and for lists with
\* repeated filenames; items are processed one at a time in input order, the
\* next one not before the entry of the previous one is in the report.
C10_ReportOrder ==
    entry = "batch" =>
      /\ Len(results) <= total_files
      /\ \A n \in DOMAIN results : results[n].filename = media_uploads[n].filename
      /\ (pc \in {"b_loop", "b_item"} => Len(results) = i /\ media_upload = NoUpload)
      /\ (pc = "b_item" => i < total_files)
      /\ (InItem => Len(results) = i /\ i < total_files /\ media_upload = media_uploads[i + 1])
      /\ (pc \in {"b_final", "b_done"} => Len(results) = total_files /\ i = total_files)
      /\ (pc = "b_done" /\ batch_result.kind = "return" => batch_result.value = results)

\* A report for a list in which the same upload occurs twice, with a
\* different fate each time.
C10_Witness ==
    /\ pc = "b_done" /\ batch_result.kind = "return"
    /\ Len(batch_result.value) = MaxBatch
    /\ media_uploads[1] = media_uploads[MaxBatch]
    /\ batch_result.value[1].success /\ ~batch_result.value[MaxBatch].success

\* C11: every MediaUpload that construction delivers declares the length of
\* its payload, size_bytes = len(data); arguments in which the two differ
\* make the constructor raise.
C11_SizeMatchesPayload ==
    /\ (ctor_result.kind = "return" =>
          ctor_result.value.size_bytes = ctor_result.value.data.len)
    /\ (ctor_result.kind # "none" /\ ctor_args.size_bytes # ctor_args.data.len =>
          ctor_result.kind = "raise")

\* The filename ends in a dot followed by one of the seven allowed
\* extensions, compared without regard to case.
EndsInAllowedExtension(name) ==
    /\ Len(name) >= 2
    /\ Lower(Last(name)) \in {"jpg", "jpeg", "png", "gif", "mp4", "mov", "avi"}

\* C13: a constructor call whose filename does not end in one of .jpg,
\* .jpeg, .png, .gif, .mp4, .mov, .avi (case-insensitive), or whose
\* size_bytes exceeds 100 MiB, raises a validation error and delivers no
\* value; a call with an allowed extension and size_bytes of exactly 100 MiB
\* (and a content type that is not empty) delivers the value.
C13_ConstructionValidation ==
    ctor_result.kind # "none" =>
      /\ (~EndsInAllowedExtension(ctor_args.filename) \/ ctor_args.size_bytes > 104857600 =>
            /\ ctor_result.kind = "raise"
            /\ ctor_result.error.type = "ValidationError")
      /\ (/\ EndsInAllowedExtension(ctor_args.filename)
          /\ ctor_args.size_bytes = 104857600
          /\ ctor_args.content_type # ""
          => /\ ctor_result.kind = "return"
             /\ ctor_result.value.size_bytes = 104857600
             /\ ctor_result.value.data = ctor_args.data)

\* An upload declaring exactly 100 MiB has been constructed.
C13_Witness ==
    /\ ctor_result.kind = "return"
    /\ ctor_args.size_bytes = 104857600
    /\ ctor_args.filename = <<"clip", "MOV">>

\* C12: neither compress_image nor compress_video is ever handed a payload
\* longer than 100 MiB, whether process_and_upload_media is called directly
\* or by batch_process_media.
C12_CeilingBeforeTranscoding ==
    transcode_result # NoTranscode => media_upload.data.len <= 104857600

\* Membership in a sequence of checkpoints.
Emitted(p, log) == \E k \in DOMAIN log : log[k] = p

\* C14: every filename the constructor accepts is classified as exactly one
\* of image and video: the two extension sets are disjoint, no call fails
\* with 'Unsupported file type', and the kind chosen is the one classify
\* gives for the filename.
C14_ClassificationTotal ==
    /\ image_formats \cap video_formats = {}
    /\ (media_upload # NoUpload => MediaUploadAccepted(media_upload))
    /\ (media_type # "none" =>
          media_type \in {"image", "video"} /\ media_type = classify(media_upload.filename))
    /\ (pc = "p_done" /\ proc_result.kind = "raise" =>
          proc_result.error.type # "Unsupported file type")

\* C16: a process_and_upload_media call with a sink that succeeds has
\* emitted exactly 0, 25, 75, 100 in this order, also when the image
\* transcoder fell back to the original bytes; 75 is emitted only after the
\* transcoder has delivered, 100 only after the upload has returned its
\* pair, and a call that fails has not emitted 100.
C16_Checkpoints ==
    progress_callback = "sink" =>
      /\ (pc = "p_done" /\ proc_result.kind = "return" => sink_log = <<0, 25, 75, 100>>)
      /\ (Emitted(75, sink_log) =>
            /\ transcode_result # NoTranscode
            /\ (transcode_result.raised => media_type = "image"))
      /\ (Emitted(100, sink_log) => up_result.kind = "return")
      /\ (pc = "p_done" /\ proc_result.kind = "raise" => ~Emitted(100, sink_log))

\* C15: when compress_video has returned or raised, none of the temporary
\* files it created exists any more: not the input copy, not the output
\* file, not a temporary audio file, whichever step failed.
C15_TempFilesRemoved ==
    v_pc = "v_done" => temp_files = {}

\* C17: an _execute_with_retry call makes at most max_retries attempts; when
\* an attempt succeeds after fewer than max_retries failures the call
\* returns the result of that attempt; it raises only after max_retries
\* failed attempts, and then the error of the last one.
C17_RetryThenSuccess ==
    /\ AttemptCount(r_trace) <= db_max_retries
    /\ (r_pc = "r_done" =>
          LET n == AttemptCount(r_trace)
          IN  /\ \A k \in DOMAIN r_trace :
                   r_trace[k].ev = "attempt" /\ r_trace[k].ok => k = Len(r_trace)
              /\ (n > 0 /\ r_trace[Len(r_trace)].ok =>
                    r_result = Return(r_trace[Len(r_trace)].n))
              /\ (r_result.kind = "return" => n > 0 /\ r_trace[Len(r_trace)].ok)
              /\ (r_result.kind = "raise" =>
                    /\ n = db_max_retries
                    /\ ~r_trace[Len(r_trace)].ok
                    /\ r_result.error = Err(r_trace[Len(r_trace)].outcome, n))
              /\ (r_result.kind = "return_none" => db_max_retries = 0))

\* The value stored last under key k and not cleared since is still within
\* its lifetime.
Live(k) == stored[k] # NoEntry /\ now - stored[k].timestamp <= stored[k].ttl

\* C18: get_cached_data(k) returns the value stored last under k when that
\* entry exists, has not been cleared since and is not older than its TTL,
\* and None otherwise; an entry found expired is gone from the cache after
\* the read; clear_cache() without a pattern leaves the cache empty.
C18_CacheReads ==
    /\ (cache_op.op = "get_cached_data" =>
          /\ cache_op.result = IF Live(cache_op.key) THEN stored[cache_op.key].data ELSE "None"
          /\ (~Live(cache_op.key) => session_cache[cache_op.key] = NoEntry))
    /\ (cache_op.op = "clear_cache" /\ cache_op.key = "None" =>
          \A k \in CacheKeys : session_cache[k] = NoEntry)

\* A value is read back at the very age of its TTL, after an expired entry
\* under the other key was found by a read and removed.
C18_Witness ==
    /\ cache_op = [op |-> "get_cached_data", key |-> "notes_1", result |-> "v1"]
    /\ now - stored["notes_1"].timestamp = 2 /\ stored["notes_1"].ttl = 2
    /\ stored["tracks"] # NoEntry /\ session_cache["tracks"] = NoEntry

\* C19: batch_process returns, in input order, process_func of every item,
\* whatever the batch size and the order in which the coroutines of a batch
\* complete; the coroutines that run at one time all belong to one batch,
\* and a batch is started only when the batches before it have completed
\* and their results are in the list.
C19_BatchOrder ==
    /\ (a_pc = "a_done" /\ a_result.kind = "return" =>
          /\ Len(a_result.value) = Len(a_items)
          /\ \A n \in DOMAIN a_items : a_result.value[n] = process_func(a_items[n]))
    /\ (\A pos \in a_pending : a_i < pos /\ pos <= a_i + a_batch_size)
    /\ (a_pc = "a_gather" =>
          /\ Len(a_results) = a_i
          /\ \A pos \in 1 .. a_i : \E k \in DOMAIN a_completed :
                a_completed[k].pos = pos /\ a_completed[k].ok)
    /\ (a_pc \in {"a_loop", "a_sleep"} => a_pending = {})

\* A list of three items was processed in batches of two, the second item
\* completing before the first.
C19_Witness ==
    /\ a_pc = "a_done" /\ a_result.kind = "return"
    /\ a_items = <<1, 2, 1>> /\ a_batch_size = 2
    /\ a_completed[1].pos = 2 /\ a_completed[2].pos = 1 /\ a_completed[3].pos = 3
    /\ a_result.value = <<2, 4, 2>>

\* C20: whenever a get_supabase_client call has returned, the first one or
\* a later one, with or without a running event loop, the client it returned
\* is the global one, its connection has been created and the connection
\* test of that connection has passed.
C20_ReturnedClientInitialized ==
    g_pc = "g_done" /\ g_result.kind = "return" =>
      /\ supabase_client = "client"
      /\ g_result.value = supabase_client
      /\ client_conn = "created"
      /\ conn_tested

\* One compress_image call with every step eventually taken.
ImageFairSpec == LibInit /\ [][ImageNext]_vars /\ WF_vars(ImageNext)

\* The compress_image call has returned a pair.
ImageReturned == ci_pc = "ci_done" /\ ~ci_result.raised

\* C21: compress_image makes at most two encode passes and always
\* terminates: a second pass is made exactly when the first pass succeeded
\* with a result above 10 MiB, the pair returned carries the output of the
\* last pass whatever its size, and so a returned payload is at most 10 MiB or
\* is the output of the second pass.
C21_AtMostTwoPasses ==
    /\ [](/\ Len(saves) <= 2
          /\ (Len(saves) = 2 =>
                saves[1].ok /\ saves[1].len > max_compressed_image_size)
          /\ ((/\ ci_pc \in {"ci_return", "ci_done"}
               /\ Len(saves) >= 1 /\ saves[1].ok
               /\ saves[1].len > max_compressed_image_size)
                => Len(saves) = 2)
          /\ (ImageReturned =>
                /\ Len(saves) \in {1, 2}
                /\ saves[Len(saves)].ok
                /\ ci_result.data.len = saves[Len(saves)].len
                /\ ci_result.data.enc.format = saves[Len(saves)].format
                /\ (ci_result.data.len <= max_compressed_image_size \/ Len(saves) = 2)))
    /\ (ci_pc = "ci_open" ~> ci_pc = "ci_done")

\* A first pass of exactly 10 MiB was returned as it is, by a single pass.
C21_Witness ==
    /\ ImageReturned
    /\ Len(saves) = 1
    /\ ci_result.data.len = max_compressed_image_size

\* C22: when the first-pass result exceeds 10 MiB the second pass encodes
\* JPEG at quality 50, and the filename returned ends in .jpg whatever the
\* input extension and the first-pass format.
C22_SecondPassQuality ==
    /\ (Len(saves) = 2 => saves[2].format = "JPEG" /\ saves[2].quality = 50)
    /\ (ImageReturned /\ Len(saves) = 2 =>
          /\ ci_result.data.enc = [format |-> "JPEG", quality |-> 50]
          /\ Suffix(ci_result.filename) = "jpg")

\* The file is a HEIC/HEIF source: by its content or by its name.
HeifSource ==
    \/ ci_src.format \in {"HEIC", "HEIF"}
    \/ EndsWithExt(ci_filename, "heic")
    \/ EndsWithExt(ci_filename, "heif")

\* C23: the first pass encodes a HEIC/HEIF source, or a PNG source whose
\* input is larger than 2 MiB, as JPEG at quality 85 under the name renamed
\* to .jpg, and every other source in its own format under its own name, at
\* quality 85 when that format is JPEG; for every colour mode of the source
\* and with or without orientation metadata.
C23_FirstPassFormat ==
    Len(saves) >= 1 =>
        IF HeifSource \/ (ci_src.format = "PNG" /\ ci_data.len > 2 * MiB)
        THEN /\ saves[1].format = "JPEG" /\ saves[1].quality = image_quality
             /\ (ImageReturned /\ Len(saves) = 1 =>
                   ci_result.filename = with_suffix(ci_filename, "jpg"))
        ELSE /\ saves[1].format = ci_src.format
             /\ (ci_src.format = "JPEG" => saves[1].quality = image_quality)
             /\ (ImageReturned /\ Len(saves) = 1 => ci_result.filename = ci_filename)

\* Width and height of the decoded image once its orientation is applied.
OrientedSize ==
    IF ci_src.orientation \in 5 .. 8
    THEN <<ci_src.height, ci_src.width>>
    ELSE <<ci_src.width, ci_src.height>>

\* An image of w by h came out as out_w by out_h within the bounding box,
\* never larger, unchanged when it fitted, and otherwise with one side on the
\* box and the aspect ratio kept up to the rounding of the other side.
FitsBox(w, h, out_w, out_h) ==
    /\ out_w <= Min(w, image_max_width)
    /\ out_h <= Min(h, image_max_height)
    /\ out_w >= 1 /\ out_h >= 1
    /\ IF w <= image_max_width /\ h <= image_max_height
       THEN out_w = w /\ out_h = h
       ELSE /\ (out_w = image_max_width \/ out_h = image_max_height)
            /\ Abs(out_w * h - out_h * w) <= Max(w, h)

\* C24 as stated: for every width w and height h of the input, the output
\* of compress_image is at most min(w, 1920) by min(h, 1080), unchanged when
\* the input fits and scaled down at the same aspect ratio otherwise.
C24_NeverUpscales_StoredSize ==
    ImageReturned =>
        FitsBox(ci_src.width, ci_src.height,
                saves[Len(saves)].width, saves[Len(saves)].height)

\* C24: the same with w and h the width and height of the image after its
\* orientation metadata was applied, which exchanges the stored width and
\* height for the orientations 5 to 8.
C24_NeverUpscales ==
    ImageReturned =>
        FitsBox(OrientedSize[1], OrientedSize[2],
                saves[Len(saves)].width, saves[Len(saves)].height)

\* A 3000x2000 image was returned at 1620x1080.
C24_Witness ==
    /\ ImageReturned
    /\ ci_src.width = 3000 /\ ci_src.height = 2000
    /\ saves[Len(saves)].width = 1620 /\ saves[Len(saves)].height = 1080

\* Resize call r of a w-by-h video keeps the aspect ratio in the mw-by-mh
\* box up to rounding: one side is the side of the box and the other is the
\* exactly scaled side, truncated and made even.
AspectKept(r, w, h, mw, mh) ==
    \/ /\ r.width = mw
       /\ r.height * w <= mw * h
       /\ (r.height + 2) * w >= mw * h
    \/ /\ r.height = mh
       /\ r.width * h <= mh * w
       /\ (r.width + 2) * h >= mh * w

\* The bounding box of a pass.
BoxOf(pass) == IF pass = 1 THEN <<video_max_width, video_max_height>> ELSE <<854, 480>>

\* C25: whenever compress_video resizes, the width and height passed to the
\* resize are even, keep the aspect ratio of the source up to rounding and
\* lie within the box of the pass, 1280x720 in the first pass and 854x480 in
\* the second; a source within 1280x720 is not resized in the first pass.
C25_ResizeDimensions ==
    /\ \A k \in DOMAIN v_resizes :
         LET r == v_resizes[k]
             box == BoxOf(r.pass)
         IN  /\ r.width % 2 = 0 /\ r.height % 2 = 0
             /\ r.width <= box[1] /\ r.height <= box[2]
             /\ AspectKept(r, v_size[1], v_size[2], box[1], box[2])
    /\ (v_size[1] <= video_max_width /\ v_size[2] <= video_max_height =>
          \A k \in DOMAIN v_resizes : v_resizes[k].pass # 1)

\* A 1920x1080 video was resized to 1280x720 and then to 852x480.
C25_Witness ==
    /\ v_pc = "v_done"
    /\ v_size = <<1920, 1080>>
    /\ v_resizes = << ResizeCall(1, <<1280, 720>>), ResizeCall(2, <<852, 480>>) >>

\* C30: for a source of width and height at least 1 that compress_video
\* resizes, the target width and the target height are at least 2 in both
\* passes.
C30_ResizeAtLeastTwo ==
    v_size[1] >= 1 /\ v_size[2] >= 1 =>
        \A k \in DOMAIN v_resizes : v_resizes[k].width >= 2 /\ v_resizes[k].height >= 2

\* The positions of a running or finished upload_media_with_retry call.
UploadPositions == {"u_loop", "u_attempt", "u_client", "u_sleep", "u_done"}

\* The terminal error of upload_media_with_retry after n failed attempts.
IsTerminalFailure(r, n) ==
    /\ r.kind = "raise"
    /\ r.error.type = "Failed to upload"
    /\ r.error.attempts = n

\* C26: whatever max_retries is, upload_media_with_retry ends either with the
\* (URL, size) of a successful attempt or, after exactly max_retries failed
\* attempts, with the terminal "Failed to upload after N attempts" error; it
\* never returns without a result and never raises another error.
C26_ReturnsOrTerminal ==
    pc = "u_done" =>
      \/ /\ up_result.kind = "return"
         /\ last_attempt.outcome = "ok"
         /\ up_result.value = [public_url |-> get_public_url(last_attempt.key),
                               size_mb |-> size_mb_of(file_data)]
      \/ /\ IsTerminalFailure(up_result, max_retries)
         /\ AttemptCount(trace) = max_retries
         /\ \A k \in Attempts(trace) : ~trace[k].ok

\* C27: within one _upload_media call the public URL is requested only after
\* a put-object call that returned without an error; a put-object result
\* carrying an error makes the attempt fail without a URL, the failure goes
\* to the retry loop (which sleeps before the next attempt when one is left),
\* and the URL upload_media_with_retry returns is the one of the key the
\* successful attempt wrote, which no failed attempt wrote.
C27_UrlAfterPut ==
    /\ (last_attempt.url_requested =>
          last_attempt.put_called /\ last_attempt.outcome \in {"ok", "url_raises"})
    /\ (last_attempt.outcome = "put_error" =>
          /\ ~last_attempt.url_requested
          /\ up_result.kind \in {"none", "raise"}
          /\ ((/\ AttemptCount(trace) = attempt + 1
               /\ attempt < max_retries - 1
               /\ delay_index(attempt) \in DOMAIN retry_delays) => pc = "u_sleep"))
    /\ (up_result.kind = "return" =>
          /\ last_attempt.outcome = "ok"
          /\ up_result.value.public_url = get_public_url(last_attempt.key)
          /\ \A k \in Attempts(trace) : trace[k].ok => k = Len(trace)
          /\ puts # <<>>
          /\ puts[Len(puts)].key = last_attempt.key
          /\ \A k \in 1 .. Len(puts) - 1 : puts[k].key # last_attempt.key)

\* A first attempt that wrote a key and failed, then a successful second
\* attempt: the URL returned is the one of the second key.
C27_Witness ==
    /\ pc = "u_done" /\ up_result.kind = "return"
    /\ Len(puts) = 2 /\ AttemptCount(trace) = 2
    /\ puts[1].key # puts[2].key
    /\ up_result.value.public_url = get_public_url(puts[2].key)

\* C28: every upload attempt of one process_and_upload_media call sends the
\* same payload, the same filename and the same content type: payload and
\* filename are what the transcoder returned, or the originals when the
\* image transcoder raised, and the content type is the declared one of the
\* MediaUpload even when the transcoder renamed the file.
C28_SameUploadArguments ==
    (entry \in {"process", "batch"} /\ pc \in UploadPositions) =>
      /\ file_data = compressed_data
      /\ filename = new_filename
      /\ content_type = media_upload.content_type
      /\ IF transcode_result.raised
         THEN /\ media_type = "image"
              /\ compressed_data = media_upload.data
              /\ new_filename = media_upload.filename
         ELSE /\ compressed_data = transcode_result.data
              /\ new_filename = transcode_result.filename
      /\ \A k \in DOMAIN puts :
            /\ puts[k].data = compressed_data
            /\ puts[k].key.filename = new_filename
            /\ puts[k].content_type = media_upload.content_type

\* clip.MOV transcoded to clip.mp4 and sent twice as video/quicktime.
C28_Witness ==
    /\ entry = "process" /\ pc = "u_done"
    /\ media_upload.filename = <<"clip", "MOV">>
    /\ new_filename = <<"clip", "mp4">>
    /\ Len(puts) = 2
    /\ puts[1].content_type = "video/quicktime" /\ puts[2].content_type = "video/quicktime"
    /\ puts[1].key.filename = <<"clip", "mp4">> /\ puts[2].data = puts[1].data

\* The initialize() coroutine of call n has raised and no other one is
\* running or has succeeded.
InitializeFailed(n) ==
    /\ inits[n].pc = "i_raised"
    /\ \A m \in DOMAIN inits \ {n} : inits[m].pc \in {"none", "i_raised"}

\* C29: a failed initialize leaves the client uninitialized: when every
\* attempt has failed, at client creation or at the connection test, the
\* client attribute is still None after the raise, and a later
\* get_supabase_client call that returns the client has run or scheduled the
\* initialization again.
C29_FailedInitializeLeavesNone ==
    /\ \A n \in DOMAIN inits : InitializeFailed(n) => client_conn = "None"
    /\ ((/\ g_calls = 2 /\ g_pc = "g_done" /\ g_result.kind = "return"
          /\ inits[1].pc = "i_raised" /\ inits[1].mode # "create_task")
         => inits[2] # NoFrame)

====
